---- MODULE Spec2Model ----
(***************************************************************************)
(* Verification model of the soil analysis application:                    *)
(*   - executeSDQuery            src/src/workers/soil.js   (Query Executor) *)
(*   - getSoilPolygonsAndAreas   src/src/workers/soil.js   (pipeline)       *)
(*   - the worker message handler (soil.worker.js, src/unnamed/part_001)    *)
(*   - the component's refreshSoil / updateGeoJSON / clearAll               *)
(*     (src/unnamed/part_000)                                               *)
(*   - calculateRobustIntersection  src/src/workers/soil.js                 *)
(* The specifications share the definitions:                                *)
(*   SpecExec    one call of executeSDQuery against an arbitrary endpoint   *)
(*   SpecExecLive  the same call, the event loop running its timers         *)
(*   SpecPipe    one call of getSoilPolygonsAndAreas                        *)
(*   SpecPipeLive  the same call on a network that answers every request    *)
(*   SpecWorker  the worker alone, handling start and abort messages        *)
(*   Spec        the component and the worker exchanging messages           *)
(*   SpecKeys    one resolution of maxResults over a lookup answer          *)
(*   SpecIsect   one call of calculateRobustIntersection                    *)
(*   SpecPoly    one polygon row in calculateSoilIntersections              *)
(*   SpecNorm    one call of extractAndConvertGeometry                      *)
(*   SpecHash    generateGeometryHash on two payloads                       *)
(*   SpecUnits   one run of the pipeline over given polygon tables          *)
(***************************************************************************)
EXTENDS Integers, Sequences, FiniteSets, TLC

VARIABLES
    q,      \* SpecExec: the state of one executeSDQuery call
    sig,    \* SpecExec: options.signal.aborted of that call
    h,      \* SpecExec: what the call did so far (fetches, waits, errors raised)
    p,      \* SpecPipe: the state of one getSoilPolygonsAndAreas call
    ui,     \* Spec: the data of the component
    toWorker,   \* Spec: messages posted to the worker, not yet handled
    toUI,   \* Spec: messages posted by the worker, not yet dispatched
    wk,     \* Spec: the worker: currentAbort and its runs
    log,    \* Spec: what was posted so far
    fn      \* SpecKeys, SpecIsect, ...: one call of a synchronous function

execVars == <<q, sig, h>>
pipeVars == <<p>>
protoVars == <<ui, toWorker, toUI, wk, log>>
vars == <<q, sig, h, p, ui, toWorker, toUI, wk, log, fn>>

(***************************************************************************)
(* Bounds of the model                                                     *)
(***************************************************************************)
MaxRetries == 6         \* largest `retries` option tried in SpecExec
MaxKeys == 2            \* longest answer of the map-unit lookup in SpecPipe
MaxPolys == 1           \* most polygon rows of one map unit in SpecPipe
MaxRuns == 3            \* most analysis runs the component starts in Spec
MaxShapes == 1          \* most shapes on the map at once in Spec
MaxNetFailures == 1     \* most requests that fail in the network in Spec
MaxUserActions == 3     \* most actions of the user in Spec
MaxWorkerKeys == 1      \* longest answer of the map-unit lookup in SpecWorker
MaxLookupRows == 101    \* longest answer of the map-unit lookup in SpecKeys
MaxFeatures == 3        \* most features of a FeatureCollection in SpecNorm
MaxHashFeatures == 2    \* most features of a payload in SpecHash
MaxTableRows == 2       \* most polygon rows of one map unit in SpecUnits

(***************************************************************************)
(* Program constants                                                       *)
(***************************************************************************)
MAX_RETRIES == 3        \* SDA_CONFIG.MAX_RETRIES
DEFAULT_MAX_RESULTS == 100  \* getSoilPolygonsAndAreas(geojson, maxResults = 100, ...)
NOISE_FLOOR == 100      \* areaAcres > 0.0001, in millionths of an acre
MIN_AREA == 10          \* area >= 0.1 (sq meters), in hundredths
\* SDA_CONFIG.ACRES_PER_SQM = 0.000247105381: millionths of an acre per
\* hundredth of a square meter, times 1000 (2.471)
ACRES_PER_SQM == 2471

\* No synchronous function call is modelled.
NoCall == [pc |-> "none"]

Min(a, b) == IF a < b THEN a ELSE b

(***************************************************************************)
(* executeSDQuery                                                          *)
(*                                                                         *)
(* An error value is [kind, attempt]: the attempt that raised it makes two *)
(* errors of the same kind distinguishable.  NoError is the value of       *)
(* `let lastError;` before any assignment (undefined).                     *)
(***************************************************************************)
NoError == [kind |-> "undefined", attempt |-> -1]

Err(kind, attempt) == [kind |-> kind, attempt |-> attempt]

\* Math.min(1000 * Math.pow(2, attempt), 10000)
BackoffDelayUncapped(attempt) == 1000 * (2 ^ attempt)

BackoffDelay(attempt) == Min(1000 * (2 ^ attempt), 10000)

\* if (attempt < retries - 1): is there a backoff wait after this failure?
ShouldWait(ex) == ex.attempt < ex.retries - 1

\* The test of the for loop before each iteration, and `throw lastError`
\* after the loop.
ForLoopTest(ex) ==
    IF ex.attempt < ex.retries
    THEN [ex EXCEPT !.pc = "fetch", !.resp = "none", !.delay = 0]
    ELSE [ex EXCEPT !.pc = "thrown", !.resp = "none", !.delay = 0,
                    !.thrown = ex.lastError]

\* The call up to its first await: destructuring of the options, then the
\* first loop test.  hasSignal: options.signal was supplied.
executeSDQuery(retries, hasSignal) ==
    ForLoopTest([retries   |-> retries,
                 hasSignal |-> hasSignal,
                 attempt   |-> 0,
                 pc        |-> "fetch",
                 resp      |-> "none",
                 delay     |-> 0,
                 lastError |-> NoError,
                 thrown    |-> NoError,
                 rows      |-> <<>>])

\* lastError = error;
SetLastErrorKeepFirst(ex, err) ==
    IF ex.lastError = NoError THEN [ex EXCEPT !.lastError = err] ELSE ex

SetLastError(ex, err) == [ex EXCEPT !.lastError = err]

\* The catch block of one attempt, up to its next await, return or throw.
CatchError(ex, err) ==
    LET e1 == SetLastError(ex, err) IN
    IF err.kind = "AbortError"
    THEN [e1 EXCEPT !.pc = "thrown", !.resp = "none",
                    !.thrown = Err("QueryTimeout", ex.attempt)]
    ELSE IF ShouldWait(e1)
         THEN [e1 EXCEPT !.pc = "wait", !.resp = "none",
                         !.delay = BackoffDelay(ex.attempt)]
         ELSE ForLoopTest([e1 EXCEPT !.attempt = @ + 1])

\* await wait(delay) resolves: attempt++ and the loop test.
WaitElapsed(ex) == ForLoopTest([ex EXCEPT !.attempt = @ + 1])

(* The ways `await fetch(...)` can settle.  With a caller's signal the      *)
(* request carries that signal and no timer is armed; without one the       *)
(* request carries the signal of a private controller that a timer aborts   *)
(* after `timeout` ms.  A request whose signal is aborted rejects with an   *)
(* AbortError and cannot resolve.                                           *)
FetchOutcomes(ex, aborted) ==
    IF ex.hasSignal
    THEN IF aborted THEN {"abort"}
         ELSE {"headers_ok", "headers_not_ok", "headers_non_json", "network_error"}
    ELSE {"headers_ok", "headers_not_ok", "headers_non_json", "network_error",
          "timeout"}

\* The error an attempt raises when its fetch rejects with outcome o.
FetchError(ex, o) ==
    IF o = "network_error" THEN Err("TypeError", ex.attempt)
    ELSE Err("AbortError", ex.attempt)

\* `await fetch(...)` settles: on a response clearTimeout and the tests of
\* response.ok and of the content type, up to the await of the body.
FetchSettled(ex, o) ==
    CASE o = "headers_ok"       -> [ex EXCEPT !.pc = "body", !.resp = "ok"]
      [] o = "headers_not_ok"   -> [ex EXCEPT !.pc = "body", !.resp = "not_ok"]
      [] o = "headers_non_json" -> [ex EXCEPT !.pc = "body", !.resp = "non_json"]
      [] OTHER                  -> CatchError(ex, FetchError(ex, o))

(* The ways the read of the body (response.text() / response.json()) can    *)
(* settle.  The private controller's timer was cleared when the response    *)
(* arrived, so only a caller's signal can abort the read.                   *)
BodyOutcomes(ex, aborted) ==
    IF ex.hasSignal /\ aborted THEN {"abort"} ELSE {"done", "failed"}

\* data.Table || []  (data is <<>> when the payload has no Table, else
\* <<rows>>)
TableOrPayload(data) == data

TableOrEmpty(data) == IF data = <<>> THEN <<>> ELSE data[1]

\* The error an attempt raises after the read of the body settled with o;
\* NoError when the attempt returns rows instead.
BodyError(ex, o) ==
    CASE ex.resp = "ok" ->
            IF o = "done" THEN NoError
            ELSE IF o = "abort" THEN Err("AbortError", ex.attempt)
            ELSE Err("SyntaxError", ex.attempt)
      [] ex.resp = "not_ok" ->
            \* try { errorText = await response.text() } catch (e) {...}
            \* swallows every failure of the read, an abort included
            Err("SDA API Error", ex.attempt)
      [] OTHER ->
            IF o = "done" THEN Err("non-JSON response", ex.attempt)
            ELSE IF o = "abort" THEN Err("AbortError", ex.attempt)
            ELSE Err("TypeError", ex.attempt)

BodySettled(ex, o, data) ==
    IF BodyError(ex, o) = NoError
    THEN [ex EXCEPT !.pc = "returned", !.resp = "none",
                    !.rows = TableOrEmpty(data)]
    ELSE CatchError(ex, BodyError(ex, o))

(***************************************************************************)
(* getSoilPolygonsAndAreas and the functions it calls                      *)
(*                                                                         *)
(* A GeoJSON input is [type, features]: type "null" is a missing input,    *)
(* "" a missing `type`; features lists, per feature (or for the single     *)
(* geometry of a Feature or of a bare geometry), the type of its geometry  *)
(* ("none": no geometry, "nocoords": no coordinates) and what turf.union   *)
(* of the running union with it yields ("Polygon", "MultiPolygon", "null", *)
(* "throws").  A geometry is [type, parts]: parts are the features it      *)
(* covers.                                                                 *)
(***************************************************************************)
Seqs(S, n) == UNION {[1 .. k -> S] : k \in 0 .. n}

Range(s) == {s[i] : i \in 1 .. Len(s)}

Geo(type, features) == [type |-> type, features |-> features]

Feat(gtype, union) == [gtype |-> gtype, union |-> union]

NoGeometry == [type |-> "none", parts |-> {}]

\* The loop `for (let i = 1; i < features.length; i++)` of the union branch.
RECURSIVE UnionFoldStoppingAtFailure(_, _, _)
UnionFoldStoppingAtFailure(features, i, union) ==
    IF i > Len(features) THEN union
    ELSE IF features[i].union \in {"Polygon", "MultiPolygon"}
         THEN UnionFoldStoppingAtFailure(features, i + 1,
                  [type |-> features[i].union, parts |-> union.parts \cup {i}])
         ELSE union

RECURSIVE UnionFold(_, _, _)
UnionFold(features, i, union) ==
    IF i > Len(features) THEN union
    ELSE UnionFold(features, i + 1,
                   IF features[i].union \in {"Polygon", "MultiPolygon"}
                   THEN [type |-> features[i].union, parts |-> union.parts \cup {i}]
                   ELSE union)

\* extractAndConvertGeometry: [ok, geometry]; ok = FALSE when it throws
\* `Geometry processing failed: ...`.
extractAndConvertGeometry(input) ==
    LET fs == input.features
        found ==
            IF input.type = "FeatureCollection" /\ Len(fs) > 0
            THEN IF Len(fs) = 1
                 THEN <<[type |-> fs[1].gtype, parts |-> {1}]>>
                 ELSE <<UnionFold(fs, 2, [type |-> fs[1].gtype, parts |-> {1}])>>
            ELSE IF input.type \in {"Feature", "Polygon", "MultiPolygon"}
                 THEN <<[type |-> fs[1].gtype, parts |-> {1}]>>
                 ELSE <<>>      \* Unsupported GeoJSON type
    IN  IF found = <<>> \/ found[1].type \in {"none", "nocoords"}
        THEN [ok |-> FALSE, geometry |-> NoGeometry]
        ELSE [ok |-> TRUE, geometry |-> found[1]]

\* key && key.trim()
IsBlank(key) == key \in {"", " "}

\* getSoilMapUnitKeys: the keys of the lookup's rows, blank ones dropped.
getSoilMapUnitKeysUnfiltered(rows) == rows

getSoilMapUnitKeys(rows) == SelectSeq(rows, LAMBDA k : ~IsBlank(k))

\* the default value of the parameter maxResults (arg is <<>> for undefined,
\* <<n>> for n)
ResolveMaxResults(arg) == IF arg = <<>> THEN DEFAULT_MAX_RESULTS ELSE arg[1]

\* maxResults > 0 ? mukeys.slice(0, maxResults) : mukeys
LimitKeysFromEnd(mukeys, maxResults) ==
    IF maxResults > 0
    THEN SubSeq(mukeys, Len(mukeys) - Min(maxResults, Len(mukeys)) + 1, Len(mukeys))
    ELSE mukeys

LimitKeys(mukeys, maxResults) ==
    IF maxResults > 0 THEN SubSeq(mukeys, 1, Min(maxResults, Len(mukeys)))
    ELSE mukeys

\* Math.round(num / den) for num >= 0, den > 0
Round(num, den) == (2 * num + den) \div (2 * den)

\* Math.round(60 + (subProgress.current / subProgress.total) * 35)
SubProgressWithoutBase(current, total) == Round(35 * current, total)

SubProgress(current, total) == Round(60 * total + 35 * current, total)

\* progressCallback({current, ...})
Emit(r, current) == [r EXCEPT !.progress = Append(@, current)]

\* No executeSDQuery call is pending.
NoQuery == [executeSDQuery(0, FALSE) EXCEPT !.pc = "none"]

\* A call executeSDQuery(query, {debug, signal}) by the pipeline: default
\* retries, the run's signal (null when the run has none).
StartQuery(r, kind, mukey) ==
    [r EXCEPT !.ex = executeSDQuery(MAX_RETRIES, r.signal # "none"),
              !.requests = Append(@, [kind |-> kind, mukey |-> mukey])]

\* catch (error) { throw new Error(`Soil analysis failed: ${error.message}`) }
PipeError(cause) == [kind |-> "Soil analysis failed", cause |-> cause]

Throw(r, cause) ==
    [r EXCEPT !.pc = "thrown", !.ex = NoQuery, !.error = PipeError(cause)]

\* The polygon rows of one map unit.  A row is the acreage, in millionths
\* of an acre, of its intersection with the study area (0: no
\* intersection), or -1 when its WKT cannot be parsed or the geometric
\* computation on it throws.
RECURSIVE UnitFeaturesStoppingAtFailure(_, _, _)
UnitFeaturesStoppingAtFailure(rows, mukey, hasProps) ==
    IF rows = <<>> \/ Head(rows) < 0 THEN <<>>
    ELSE (IF Head(rows) > NOISE_FLOOR
          THEN <<[mukey |-> mukey, area_acres |-> Head(rows),
                  hasProps |-> hasProps]>>
          ELSE <<>>) \o UnitFeaturesStoppingAtFailure(Tail(rows), mukey, hasProps)

RECURSIVE UnitFeaturesAtFloor(_, _, _)
UnitFeaturesAtFloor(rows, mukey, hasProps) ==
    IF rows = <<>> THEN <<>>
    ELSE (IF Head(rows) >= NOISE_FLOOR
          THEN <<[mukey |-> mukey, area_acres |-> Head(rows),
                  hasProps |-> hasProps]>>
          ELSE <<>>) \o UnitFeaturesAtFloor(Tail(rows), mukey, hasProps)

RECURSIVE UnitFeatures(_, _, _)
UnitFeatures(rows, mukey, hasProps) ==
    IF rows = <<>> THEN <<>>
    ELSE (IF Head(rows) > NOISE_FLOOR
          THEN <<[mukey |-> mukey, area_acres |-> Head(rows),
                  hasProps |-> hasProps]>>
          ELSE <<>>) \o UnitFeatures(Tail(rows), mukey, hasProps)

RECURSIVE SumAcres(_)
SumAcres(features) ==
    IF features = <<>> THEN 0
    ELSE Head(features).area_acres + SumAcres(Tail(features))

\* results.sort((a, b) => (b.area_acres || 0) - (a.area_acres || 0)):
\* a stable sort, descending.
RECURSIVE InsertDescTiesFirst(_, _)
InsertDescTiesFirst(sorted, unit) ==
    IF sorted = <<>> THEN <<unit>>
    ELSE IF Head(sorted).area_acres > unit.area_acres
         THEN <<Head(sorted)>> \o InsertDescTiesFirst(Tail(sorted), unit)
         ELSE <<unit>> \o sorted

RECURSIVE InsertDesc(_, _)
InsertDesc(sorted, unit) ==
    IF sorted = <<>> THEN <<unit>>
    ELSE IF Head(sorted).area_acres >= unit.area_acres
         THEN <<Head(sorted)>> \o InsertDesc(Tail(sorted), unit)
         ELSE <<unit>> \o sorted

RECURSIVE SortDesc(_)
SortDesc(units) ==
    IF units = <<>> THEN <<>>
    ELSE InsertDesc(SortDesc(SubSeq(units, 1, Len(units) - 1)), units[Len(units)])

RECURSIVE AllFeatures(_)
AllFeatures(units) ==
    IF units = <<>> THEN <<>>
    ELSE Head(units).intersectionFeatures \o AllFeatures(Tail(units))

\* The value returned when the lookup found no map unit.
EmptyResult == [type |-> "FeatureCollection", features |-> <<>>]

\* The value returned at the end of a run.
BuildResult(units, input) ==
    [type |-> "FeatureCollection",
     features |-> AllFeatures(units),
     properties |-> [total_area_acres |-> SumAcres(units),
                     mapunit_count |-> Len(units),
                     study_area |-> input]]

\* The end of calculateSoilIntersections and of getSoilPolygonsAndAreas:
\* the last sub-progress, the sort, progress 100, the result.
FinishRun(r) ==
    LET r1 == Emit(r, SubProgress(r.processed, Len(r.limitedMukeys)))
        sorted == SortDesc(r.results)
    IN  [Emit(r1, 100) EXCEPT !.pc = "returned", !.ex = NoQuery,
                              !.discovered = r.results,
                              !.results = sorted,
                              !.result = BuildResult(sorted, r.geojson)]

\* The head of `for (const mukey of mukeys)`: the sub-progress and the
\* polygon query of the next key, or the end of the loop.
LoopHeadFanOut(r) ==
    IF r.idx <= Len(r.limitedMukeys)
    THEN LET r1 == StartQuery(Emit(r, SubProgress(r.processed, Len(r.limitedMukeys))),
                              "poly", r.limitedMukeys[r.idx])
         IN  [r1 EXCEPT !.requests = @ \o
                 [j \in 1 .. Len(r.limitedMukeys) - r.idx |->
                     [kind |-> "poly", mukey |-> r.limitedMukeys[r.idx + j]]]]
    ELSE FinishRun(r)

LoopHead(r) ==
    IF r.idx <= Len(r.limitedMukeys)
    THEN StartQuery(Emit(r, SubProgress(r.processed, Len(r.limitedMukeys))),
                    "poly", r.limitedMukeys[r.idx])
    ELSE FinishRun(r)

\* if (totalIntersectionArea > 0 && soilProperties[mukey]) results.push(...)
KeepUnitWithoutProperties(total, hasProps) == total > 0

KeepUnit(total, hasProps) == total > 0 /\ hasProps

\* The polygon query of the current key returned rows.
AfterPolygons(r, rows) ==
    LET mukey == r.limitedMukeys[r.idx]
        feats == UnitFeatures(rows, mukey, mukey \in r.soilProperties)
        total == SumAcres(feats)
        unit  == [mukey |-> mukey, area_acres |-> total,
                  intersectionFeatures |-> feats]
    IN  LoopHead([r EXCEPT
            !.results = IF rows # <<>> /\ KeepUnit(total, mukey \in r.soilProperties)
                        THEN Append(@, unit) ELSE @,
            !.processed = @ + 1,
            !.idx = @ + 1])

\* catch (error) { ...; processed++; } of the per-key try block.
KeyFailedNotCounted(r) == LoopHead([r EXCEPT !.idx = @ + 1])

KeyFailed(r) == LoopHead([r EXCEPT !.processed = @ + 1, !.idx = @ + 1])

\* WHERE m.mukey IN (${mukeys.map((k) => `'${k}'`).join(",")}): the keys the
\* property query names.
PropertyQueryKeys(mukeys) == mukeys

\* if (!mukeys || mukeys.length === 0) return {}; in getSoilProperties
PropertiesNeedQuery(mukeys) == Len(mukeys) > 0

\* getSoilProperties returned; progress 60; calculateSoilIntersections
\* up to its first await.
AfterProperties(r, rows) ==
    LoopHead([Emit(r, 60) EXCEPT !.pc = "poly",
                                 !.soilProperties = Range(rows),
                                 !.idx = 1, !.processed = 0, !.results = <<>>])

\* getSoilMapUnitKeys returned: the early return, the truncation,
\* progress 40 and getSoilProperties up to its await.
AfterLookup(r, rows) ==
    LET mukeys  == getSoilMapUnitKeys(rows)
        limited == LimitKeys(mukeys, r.maxResults)
        r1 == [r EXCEPT !.lookup = <<rows>>, !.mukeys = mukeys]
    IN  IF Len(mukeys) = 0
        THEN [r1 EXCEPT !.pc = "returned", !.ex = NoQuery, !.result = EmptyResult]
        ELSE LET r2 == [Emit(r1, 40) EXCEPT !.pc = "props",
                                            !.limitedMukeys = limited]
             IN  IF PropertiesNeedQuery(limited)
                 THEN StartQuery([r2 EXCEPT !.queried = PropertyQueryKeys(limited)],
                                 "props", "")
                 ELSE AfterProperties(r2, <<>>)

\* The run before its first statement.
NewRun(input, maxResultsArg, signal) ==
    [pc |-> "start", signal |-> signal, ex |-> NoQuery,
     geojson |-> input, maxResults |-> ResolveMaxResults(maxResultsArg),
     lookup |-> <<>>, mukeys |-> <<>>, limitedMukeys |-> <<>>,
     soilProperties |-> {}, idx |-> 0, processed |-> 0, results |-> <<>>,
     progress |-> <<>>, requests |-> <<>>, failed |-> <<>>,
     queried |-> <<>>, discovered |-> <<>>, settled |-> 0,
     result |-> EmptyResult, error |-> NoError]

\* The value of p while no pipeline call is modelled.
PipeIdle == NewRun(Geo("null", <<>>), <<>>, "none")

\* getSoilPolygonsAndAreas up to its first await: the validation of the
\* input, progress 0, the normalization, progress 20, the lookup query.
getSoilPolygonsAndAreas(input, maxResultsArg, signal) ==
    LET r == NewRun(input, maxResultsArg, signal) IN
    IF input.type \in {"null", ""}
    THEN Throw(r, Err("InvalidInput", -1))
    ELSE IF ~extractAndConvertGeometry(input).ok
         THEN Throw(Emit(r, 0), Err("Geometry processing failed", -1))
         ELSE StartQuery([Emit(Emit(r, 0), 20) EXCEPT !.pc = "lookup"],
                         "lookup", "")

\* The pending executeSDQuery call of the run has returned or thrown: the
\* run continues to its next await or to its end.  An error of the lookup
\* or of the property query reaches the catch of getSoilPolygonsAndAreas;
\* an error of a polygon query is caught by the per-key try block.
PipeContinue(r) ==
    LET r0 == [r EXCEPT !.settled = @ + 1] IN
    CASE r.ex.pc = "returned" ->
            (CASE r.pc = "lookup" -> AfterLookup(r0, r.ex.rows)
               [] r.pc = "props"  -> AfterProperties(r0, r.ex.rows)
               [] OTHER           -> AfterPolygons(r0, r.ex.rows))
      [] r.ex.pc = "thrown" ->
            LET r1 == [r0 EXCEPT !.failed =
                          Append(@, [kind |-> r.pc, error |-> r.ex.thrown])]
            IN  IF r.pc = "poly" THEN KeyFailed(r1) ELSE Throw(r1, r.ex.thrown)
      [] OTHER -> r

\* The steps of a run between two awaits.
RunFetchSettled(r, o) == PipeContinue([r EXCEPT !.ex = FetchSettled(r.ex, o)])

RunBodySettled(r, o, data) ==
    PipeContinue([r EXCEPT !.ex = BodySettled(r.ex, o, data)])

RunWaitElapsed(r) == PipeContinue([r EXCEPT !.ex = WaitElapsed(r.ex)])

\* The endpoint as the runs see it: a request is answered with a JSON
\* table, fails in the network, or is aborted.
RunFetchOutcomes(r) ==
    FetchOutcomes(r.ex, r.signal = "aborted")
        \cap {"headers_ok", "network_error", "abort", "timeout"}

RunBodyOutcomes(r) ==
    BodyOutcomes(r.ex, r.signal = "aborted") \cap {"done", "abort"}

RawKeys == {"101", "102", ""}

AcreChoices == {-1, 100, 101, 300}

\* The acreage of the study area of a run, in millionths of an acre: no
\* polygon has more of it in common with the study area.
StudyAreaAcres == 300

\* The tables the endpoint may answer the pending query of the run with.
RunData(r, maxKeys, maxPolys) ==
    CASE r.pc = "lookup" -> {<<rows>> : rows \in Seqs(RawKeys, maxKeys)} \cup {<<>>}
      [] r.pc = "props"  ->
            {<<SelectSeq(r.limitedMukeys, LAMBDA k : k \in S)>> :
                S \in SUBSET Range(r.limitedMukeys)}
      [] OTHER -> {<<rows>> : rows \in Seqs(AcreChoices, maxPolys)}

Running(r) == r.pc \in {"lookup", "props", "poly"}

(***************************************************************************)
(* The component (GeoAnnotationApp): its data and its methods.             *)
(* A method is an operator on the record of the component's data; `out`    *)
(* collects the messages the method posts to the worker.  null is <<>>,    *)
(* a non-null value v is <<v>>.                                            *)
(***************************************************************************)
\* { current: 0, total: 0, message: "" }; the message text of a progress
\* value is left out, here and in the worker's progress messages.
InitialProgress == [current |-> 0, total |-> 0]

NewComponent ==
    [drawnItems |-> <<>>, geojson |-> <<>>, soilData |-> <<>>,
     soilLoading |-> FALSE, soilError |-> <<>>,
     soilProgress |-> InitialProgress, currentSoilAbort |-> FALSE,
     soilWorker |-> FALSE, soilJobId |-> 0, soilLayers |-> <<>>,
     lastAnalyzedGeometryHash |-> <<>>, listeners |-> {}, out |-> <<>>]

\* The shapes a user can draw, by the character that stands for their
\* coordinates: "A" and "B" are polygons, "C" is a polygon with a longitude
\* outside [-180, 180].
ShapeCodes == {65, 66, 67}

ValidShapes == {65, 66}

\* drawnItems.toGeoJSON()
toGeoJSON(items) ==
    Geo("FeatureCollection",
        [i \in 1 .. Len(items) |->
            [gtype |-> "Polygon", union |-> "MultiPolygon", code |-> items[i]]])

\* cleanGeoJSON drops Leaflet's properties; types and geometries are kept.
cleanGeoJSON(input) == input

\* isValidGeoJSON: a FeatureCollection with at least one feature, every
\* feature a valid (Multi)Polygon with coordinates in range.
isValidGeoJSON(input) ==
    /\ input.type = "FeatureCollection"
    /\ Len(input.features) > 0
    /\ \A i \in 1 .. Len(input.features) :
          /\ input.features[i].gtype \in {"Polygon", "MultiPolygon"}
          /\ input.features[i].code \in ValidShapes

(* 32-bit integers.  A value is split into a signed high half and an        *)
(* unsigned low half of 16 bits each, so that no intermediate result leaves *)
(* the range of the integers of the checker.                                *)
Lo(x) == x % 65536

Hi(x) == (x - Lo(x)) \div 65536

\* ToInt32 of hi * 2^16 + lo: the conversion done by << and by &.
ToInt32(hi, lo) ==
    LET h2 == ((hi + (lo \div 65536) + 32768) % 65536) - 32768
    IN  h2 * 65536 + (lo % 65536)

\* hash << 5
ShiftLeft5(hash) == ToInt32(32 * Hi(hash), 32 * Lo(hash))

\* hash = (hash << 5) - hash + char; hash = hash & hash
HashStepWithoutSubtraction(hash, char) ==
    LET shifted == ShiftLeft5(hash)
    IN  ToInt32(Hi(shifted), Lo(shifted) + char)

HashStep(hash, char) ==
    LET shifted == ShiftLeft5(hash)
    IN  ToInt32(Hi(shifted) - Hi(hash), Lo(shifted) - Lo(hash) + char)

RECURSIVE HashCodes(_, _)
HashCodes(codes, hash) ==
    \* hash \in Int: the running hash is computed at every character
    IF hash \in Int /\ codes # <<>>
    THEN HashCodes(Tail(codes), HashStep(hash, Head(codes)))
    ELSE hash

\* The value of hash after each iteration of the loop over jsonString.
RECURSIVE HashValues(_, _, _)
HashValues(codes, hash, seen) ==
    IF hash \in Int /\ Len(seen) >= 0 /\ codes # <<>>
    THEN HashValues(Tail(codes), HashStep(hash, Head(codes)),
                    Append(seen, HashStep(hash, Head(codes))))
    ELSE seen

\* The decimal digits of n <= 0 taken as -n, as character codes.
RECURSIVE Digits(_)
Digits(n) ==
    LET d == (10 - (n % 10)) % 10
    IN  IF n > -10 THEN <<48 + d>>
        ELSE Append(Digits((n + d) \div 10), 48 + d)

\* hash.toString(): the decimal text, "-" first for a negative number.
toString(n) == IF n < 0 THEN <<45>> \o Digits(n) ELSE Digits(-n)

\* generateGeometryHash: the digest of JSON.stringify of the types and
\* geometries ("{" the shapes "}" stands for the serialized text).
generateGeometryHash(items) == HashCodes(<<123>> \o items \o <<125>>, 0)

(* generateGeometryHash on any payload.  A payload is [type, features,      *)
(* extra]: features is <<>> when the member is missing, else <<fs>> with    *)
(* fs the list of features [type, geometry, properties]; every value is the *)
(* text JSON.stringify writes for it, as a sequence of character codes      *)
(* (<<>>: the member is absent).                                            *)
\* const simplified = { type, features: features.map((f) => ({ type: f.type,
\* geometry: f.geometry })) }
simplifiedKeepingProperties(geojsonData) ==
    [type |-> geojsonData.type, features |-> geojsonData.features[1]]

simplified(geojsonData) ==
    [type |-> geojsonData.type,
     features |-> [i \in 1 .. Len(geojsonData.features[1]) |->
                      [type |-> geojsonData.features[1][i].type,
                       geometry |-> geojsonData.features[1][i].geometry]]]

\* JSON.stringify of one member: its text, or nothing when it is absent
Member(rec, name) == IF name \in DOMAIN rec THEN rec[name] \o <<44>> ELSE <<>>

RECURSIVE StringifyFeatures(_)
StringifyFeatures(fs) ==
    IF fs = <<>> THEN <<>>
    ELSE <<123>> \o Member(Head(fs), "type") \o Member(Head(fs), "geometry")
             \o Member(Head(fs), "properties") \o <<125>>
             \o StringifyFeatures(Tail(fs))

\* JSON.stringify(simplified)
stringify(obj) ==
    <<123>> \o obj.type \o <<44, 91>> \o StringifyFeatures(obj.features) \o <<93, 125>>

\* generateGeometryHash(geojsonData): <<>> for null, else <<the text>>
generateGeometryHashOf(geojsonData) ==
    IF geojsonData.features = <<>> THEN <<>>
    ELSE <<toString(HashCodes(stringify(simplified(geojsonData)), 0))>>

clearSoilLayers(u) == [u EXCEPT !.soilLayers = <<>>]

addSoilLayersToMap(u) ==
    [u EXCEPT !.soilLayers =
        IF u.soilData = <<>> THEN <<>> ELSE u.soilData[1].features]

\* currentSoilAbort.abort(): the handle posts an abort message.
PostAbort(u) == [u EXCEPT !.out = Append(@, [type |-> "abort"])]

refreshSoil(u) ==
    IF u.geojson = <<>> THEN u
    ELSE
    LET u1 == clearSoilLayers(u)
        u2 == IF u1.currentSoilAbort
              THEN [PostAbort(u1) EXCEPT !.currentSoilAbort = FALSE]
              ELSE u1
        u3 == [u2 EXCEPT !.soilLoading = TRUE, !.soilError = <<>>,
                         !.soilProgress = InitialProgress]
        cleanGeo == cleanGeoJSON(toGeoJSON(u.drawnItems))
        jobId == u.soilJobId + 1
    IN  IF ~isValidGeoJSON(cleanGeo)
        THEN [u3 EXCEPT !.soilError = <<"Invalid geometry drawn">>,
                        !.soilLoading = FALSE]
        ELSE [u3 EXCEPT !.soilWorker = TRUE,
                        !.soilJobId = jobId,
                        !.listeners = @ \cup {jobId},
                        !.currentSoilAbort = TRUE,
                        !.out = Append(@, [type |-> "start", id |-> jobId,
                                           geojson |-> cleanGeo,
                                           maxResults |-> <<>>])]

updateGeoJSONHashOnly(u) ==
    LET currentGeometryHash == generateGeometryHash(u.drawnItems) IN
    IF Len(u.drawnItems) = 0
    THEN [u EXCEPT !.geojson = <<0>>, !.soilData = <<>>,
                   !.soilLoading = FALSE, !.soilError = <<>>,
                   !.soilProgress = InitialProgress,
                   !.lastAnalyzedGeometryHash = <<>>]
    ELSE LET u1 == [u EXCEPT !.geojson = <<Len(u.drawnItems)>>] IN
         IF <<currentGeometryHash>> # u.lastAnalyzedGeometryHash
         THEN refreshSoil([u1 EXCEPT !.lastAnalyzedGeometryHash =
                                        <<currentGeometryHash>>])
         ELSE addSoilLayersToMap(u1)

updateGeoJSON(u) ==
    LET currentGeometryHash == generateGeometryHash(u.drawnItems) IN
    IF Len(u.drawnItems) = 0
    THEN [u EXCEPT !.geojson = <<0>>, !.soilData = <<>>,
                   !.soilLoading = FALSE, !.soilError = <<>>,
                   !.soilProgress = InitialProgress,
                   !.lastAnalyzedGeometryHash = <<>>]
    ELSE LET u1 == [u EXCEPT !.geojson = <<Len(u.drawnItems)>>] IN
         IF <<currentGeometryHash>> # u.lastAnalyzedGeometryHash
                \/ u.soilData = <<>>
         THEN refreshSoil([u1 EXCEPT !.lastAnalyzedGeometryHash =
                                        <<currentGeometryHash>>])
         ELSE addSoilLayersToMap(u1)

forceRecalculate(u) ==
    updateGeoJSON([u EXCEPT !.lastAnalyzedGeometryHash = <<>>])

clearAll(u) ==
    LET u1 == [clearSoilLayers(u) EXCEPT
                   !.drawnItems = <<>>, !.geojson = <<>>, !.soilData = <<>>,
                   !.soilLoading = FALSE, !.soilError = <<>>,
                   !.soilProgress = InitialProgress,
                   !.lastAnalyzedGeometryHash = <<>>]
    IN  IF u1.currentSoilAbort
        THEN [PostAbort(u1) EXCEPT !.currentSoilAbort = FALSE]
        ELSE u1

\* Does a registered listener accept msg?  The listener of job j returns at
\* once unless msg.id = j (`if (msg.id !== jobId) return`), and it stays
\* registered until it has handled the terminal message of job j.
ListenerAccepts(u, msg) == msg.id \in u.listeners

\* A message of the worker is dispatched to the registered listeners
\* (the closures onMessage of refreshSoil).
onMessage(u, msg) ==
    IF ~ListenerAccepts(u, msg) THEN u
    ELSE CASE msg.type = "progress" ->
                [u EXCEPT !.soilProgress = msg.progress]
           [] msg.type = "result" ->
                [addSoilLayersToMap([u EXCEPT !.soilData = <<msg.results>>])
                    EXCEPT !.soilLoading = FALSE,
                           !.currentSoilAbort = FALSE,
                           !.listeners = @ \ {msg.id}]
           [] OTHER ->
                [u EXCEPT !.soilError = IF msg.aborted
                                        THEN <<"Request canceled">>
                                        ELSE <<msg.error>>,
                          !.soilData = <<>>,
                          !.soilLoading = FALSE,
                          !.currentSoilAbort = FALSE,
                          !.listeners = @ \ {msg.id}]

(***************************************************************************)
(* The worker (soil.worker.js): currentAbort is 0 for null, else the job   *)
(* whose AbortController it holds; runs[id] is the call of                 *)
(* getSoilPolygonsAndAreas made for the start message of job id.           *)
(***************************************************************************)
ProgressMessage(id, current) ==
    [id |-> id, type |-> "progress",
     progress |-> [current |-> current, total |-> 100]]

RECURSIVE ProgressMessages(_, _, _)
ProgressMessages(id, progress, from) ==
    IF from > Len(progress) THEN <<>>
    ELSE <<ProgressMessage(id, progress[from])>>
            \o ProgressMessages(id, progress, from + 1)

ResultMessage(id, r) == [id |-> id, type |-> "result", results |-> r.result]

\* const aborted = err && err.name === "AbortError"; the error thrown by
\* getSoilPolygonsAndAreas is a new Error, whose name is "Error".
ErrorMessage(id, r) ==
    [id |-> id, type |-> "error",
     aborted |-> (r.error.kind = "AbortError"),
     error |-> r.error.kind]

\* The messages the handler posts once the awaited call has ended.
TerminalMessagesBoth(id, r) ==
    IF r.pc = "returned" THEN <<ResultMessage(id, r), ErrorMessage(id, r)>>
    ELSE <<ErrorMessage(id, r)>>

TerminalMessages(id, r) ==
    IF r.pc = "returned" THEN <<ResultMessage(id, r)>>
    ELSE <<ErrorMessage(id, r)>>

\* What the worker posts while run id moves from r to r2.
PostsOf(id, r, r2) ==
    ProgressMessages(id, r2.progress, Len(r.progress) + 1)
        \o (IF Running(r2) THEN <<>> ELSE TerminalMessages(id, r2))

\* The worker after run id moved to r2: `currentAbort = null` once the
\* awaited call has returned (not when it has thrown).
WorkerAfter(w, id, r2) ==
    [w EXCEPT !.runs[id] = r2,
              !.currentAbort = IF r2.pc = "returned" THEN 0 ELSE @]

\* msg.type === "start", up to the first await of the call.
WorkerStart(w, msg) ==
    WorkerAfter([w EXCEPT !.currentAbort = msg.id], msg.id,
                getSoilPolygonsAndAreas(msg.geojson, msg.maxResults, "idle"))

\* msg.type === "abort": if (currentAbort) currentAbort.abort()
WorkerAbort(w) ==
    IF w.currentAbort = 0 THEN w
    ELSE [w EXCEPT !.runs[w.currentAbort].signal = "aborted"]

\* The keys "101", "102", ... of the first n map units.
RECURSIVE FirstKeys(_)
FirstKeys(n) ==
    IF n = 0 THEN <<>>
    ELSE Append(FirstKeys(n - 1), IF n = 1 THEN "101" ELSE "102")

\* The tables the endpoint answers the runs of the worker with.  If full:
\* the lookup finds up to MaxWorkerKeys map units, every one of them has
\* properties, and a map unit has no polygon or one of 300 (/ 10^6) acres
\* in the area; else the area has no map units.
WorkerData(r, full) ==
    IF ~full THEN {<< <<>> >>}
    ELSE CASE r.pc = "lookup" -> {<<FirstKeys(n)>> : n \in 0 .. MaxWorkerKeys}
           [] r.pc = "props"  -> {<<r.limitedMukeys>>}
           [] OTHER           -> {<< <<>> >>, << <<300>> >>}


(***************************************************************************)
(* Spec: the component, its worker and the two message queues between      *)
(* them.  log records which runs an abort message was posted for, the      *)
(* types of the messages the worker posted per run, the number of requests *)
(* that failed in the network, and the run whose result was stored in      *)
(* soilData last (0: none).                                                *)
(***************************************************************************)
NoRuns == [id \in 1 .. MaxRuns |-> PipeIdle]

NewWorker == [currentAbort |-> 0, runs |-> NoRuns]

NewLog == [asked |-> {}, posted |-> [id \in 1 .. MaxRuns |-> <<>>],
           netFailures |-> 0, userActions |-> 0, dataJob |-> 0]

ProtoIdle ==
    /\ ui = NewComponent
    /\ toWorker = <<>>
    /\ toUI = <<>>
    /\ wk = NewWorker
    /\ log = NewLog

(***************************************************************************)
(* SpecExec: one call of executeSDQuery.                                   *)
(* h records what the call did: the number of fetch calls, the delays of   *)
(* the waits in order, the error each failed attempt raised, where the     *)
(* call was when the caller's signal was triggered, and the payload of     *)
(* every response a successful attempt read.                               *)
(***************************************************************************)
\* Payloads of a successful response: no Table, an empty Table, one row.
DataChoices == {<<>>, << <<>> >>, << <<"r1">> >>}

HistInit(ex) ==
    [fetches   |-> IF ex.pc = "fetch" THEN 1 ELSE 0,
     waits     |-> <<>>,
     raised    |-> <<>>,
     trigger   |-> "never",
     lateResp  |-> FALSE,
     payloads  |-> <<>>]

\* h after the call moved from ex to ex2, the attempt having raised err
\* (NoError: none).
HistStep(ex, ex2, err) ==
    [h EXCEPT !.fetches = IF ex2.pc = "fetch" THEN @ + 1 ELSE @,
              !.waits   = IF ex2.pc = "wait" THEN Append(@, ex2.delay) ELSE @,
              !.raised  = IF err = NoError THEN @ ELSE Append(@, err),
              !.lateResp = @ \/ (sig /\ ex.pc = "fetch" /\ ex2.pc = "body")]

InitExec ==
    /\ \E r \in -1 .. MaxRetries, s \in BOOLEAN :
          q = executeSDQuery(r, s)
    /\ sig \in (IF q.hasSignal THEN BOOLEAN ELSE {FALSE})
    /\ h = [HistInit(q) EXCEPT !.trigger = IF sig THEN "before" ELSE "never"]
    /\ p = PipeIdle
    /\ ProtoIdle
    /\ fn = NoCall

ExecFetchSettles ==
    /\ q.pc = "fetch"
    /\ \E o \in FetchOutcomes(q, sig) :
          /\ q' = FetchSettled(q, o)
          /\ h' = HistStep(q, q', IF q'.pc = "body" THEN NoError
                                  ELSE FetchError(q, o))
    /\ UNCHANGED <<sig, p, ui, toWorker, toUI, wk, log, fn>>

ExecBodySettles ==
    /\ q.pc = "body"
    /\ \E o \in BodyOutcomes(q, sig), data \in DataChoices :
          /\ q' = BodySettled(q, o, data)
          /\ h' = [HistStep(q, q', BodyError(q, o)) EXCEPT
                       !.payloads = IF BodyError(q, o) = NoError
                                    THEN Append(@, data) ELSE @]
    /\ UNCHANGED <<sig, p, ui, toWorker, toUI, wk, log, fn>>

ExecWaitElapses ==
    /\ q.pc = "wait"
    /\ q' = WaitElapsed(q)
    /\ h' = HistStep(q, q', NoError)
    /\ UNCHANGED <<sig, p, ui, toWorker, toUI, wk, log, fn>>

\* The caller triggers the signal it passed, while the call is running.
ExecCancel ==
    /\ q.hasSignal
    /\ ~sig
    /\ q.pc \in {"fetch", "body", "wait"}
    /\ sig' = TRUE
    /\ h' = [h EXCEPT !.trigger = q.pc]
    /\ UNCHANGED <<q, p, ui, toWorker, toUI, wk, log, fn>>

NextExec ==
    \/ ExecFetchSettles
    \/ ExecBodySettles
    \/ ExecWaitElapses
    \/ ExecCancel

SpecExec == InitExec /\ [][NextExec]_vars

(***************************************************************************)
(* SpecExecLive: one call of executeSDQuery against a service that may     *)
(* never answer.  The settlement of `await fetch(...)` is split by cause:  *)
(* a response or a network failure depends on the service and the network  *)
(* and may never come; the timer of setTimeout and the abort of a          *)
(* triggered signal are run by the event loop and do come.  Timers of      *)
(* wait(delay) come as well.                                               *)
(***************************************************************************)
\* The outcomes of a fetch brought about by the event loop: the armed timer
\* aborting the private controller, the triggered signal aborting the
\* request.
Interruptions == {"timeout", "abort"}

\* The service answers, or the network fails.
ExecResponds ==
    /\ q.pc = "fetch"
    /\ \E o \in FetchOutcomes(q, sig) \ Interruptions :
          /\ q' = FetchSettled(q, o)
          /\ h' = HistStep(q, q', IF q'.pc = "body" THEN NoError
                                  ELSE FetchError(q, o))
    /\ UNCHANGED <<sig, p, ui, toWorker, toUI, wk, log, fn>>

\* setTimeout(() => controller?.abort(), timeout) fires, or the request
\* carries a signal that is aborted.
ExecInterrupted ==
    /\ q.pc = "fetch"
    /\ \E o \in FetchOutcomes(q, sig) \cap Interruptions :
          /\ q' = FetchSettled(q, o)
          /\ h' = HistStep(q, q', FetchError(q, o))
    /\ UNCHANGED <<sig, p, ui, toWorker, toUI, wk, log, fn>>

NextExecLive ==
    \/ ExecResponds
    \/ ExecInterrupted
    \/ ExecBodySettles
    \/ ExecWaitElapses
    \/ ExecCancel

SpecExecLive ==
    /\ InitExec
    /\ [][NextExecLive]_vars
    /\ WF_vars(ExecInterrupted)
    /\ WF_vars(ExecWaitElapses)

(***************************************************************************)
(* SpecPipe: one call of getSoilPolygonsAndAreas                           *)
(***************************************************************************)
OnePolygon == Geo("FeatureCollection", <<Feat("Polygon", "none")>>)

TwoPolygons ==
    Geo("FeatureCollection", <<Feat("Polygon", "none"), Feat("Polygon", "throws")>>)

GeoInputs ==
    {OnePolygon, TwoPolygons,
     Geo("null", <<>>), Geo("FeatureCollection", <<>>),
     Geo("Feature", <<Feat("none", "none")>>)}

MaxResultsInputs == {<<>>, <<0>>, <<1>>}

InitPipe ==
    /\ \E g \in GeoInputs, m \in MaxResultsInputs, s \in {"none", "idle"} :
          p = getSoilPolygonsAndAreas(g, m, s)
    /\ q = NoQuery
    /\ sig = FALSE
    /\ h = HistInit(NoQuery)
    /\ ProtoIdle
    /\ fn = NoCall

PipeFetchSettles ==
    /\ Running(p)
    /\ p.ex.pc = "fetch"
    /\ \E o \in RunFetchOutcomes(p) : p' = RunFetchSettled(p, o)
    /\ UNCHANGED <<q, sig, h, ui, toWorker, toUI, wk, log, fn>>

PipeBodySettles ==
    /\ Running(p)
    /\ p.ex.pc = "body"
    /\ \E o \in RunBodyOutcomes(p), data \in RunData(p, MaxKeys, MaxPolys) :
          p' = RunBodySettled(p, o, data)
    /\ UNCHANGED <<q, sig, h, ui, toWorker, toUI, wk, log, fn>>

PipeWaitElapses ==
    /\ Running(p)
    /\ p.ex.pc = "wait"
    /\ p' = RunWaitElapsed(p)
    /\ UNCHANGED <<q, sig, h, ui, toWorker, toUI, wk, log, fn>>

\* The caller triggers the run's signal before the run has ended.
PipeCancel ==
    /\ Running(p)
    /\ p.signal = "idle"
    /\ p' = [p EXCEPT !.signal = "aborted"]
    /\ UNCHANGED <<q, sig, h, ui, toWorker, toUI, wk, log, fn>>

NextPipe ==
    \/ PipeFetchSettles
    \/ PipeBodySettles
    \/ PipeWaitElapses
    \/ PipeCancel

SpecPipe == InitPipe /\ [][NextPipe]_vars

(***************************************************************************)
(* SpecPipeLive: one call of getSoilPolygonsAndAreas on a network in which *)
(* every request is eventually answered or fails, with the event loop      *)
(* running the timers of the backoff waits.  h.fetches counts the network  *)
(* attempts of the run.                                                    *)
(***************************************************************************)
InitPipeLive ==
    /\ \E g \in {OnePolygon, Geo("null", <<>>)}, m \in {<<>>, <<1>>},
          s \in {"none", "idle"} :
          p = getSoilPolygonsAndAreas(g, m, s)
    /\ q = NoQuery
    /\ sig = FALSE
    /\ h = [HistInit(NoQuery) EXCEPT !.fetches = IF Running(p) THEN 1 ELSE 0]
    /\ ProtoIdle
    /\ fn = NoCall

\* The run moves to r2; if it is then waiting for a request, that request
\* was just sent.
LiveMoves(r2) ==
    /\ p' = r2
    /\ h' = [h EXCEPT !.fetches =
                IF Running(r2) /\ r2.ex.pc = "fetch" THEN @ + 1 ELSE @]
    /\ UNCHANGED <<q, sig, ui, toWorker, toUI, wk, log, fn>>

LiveFetchSettles ==
    /\ Running(p)
    /\ p.ex.pc = "fetch"
    /\ \E o \in RunFetchOutcomes(p) : LiveMoves(RunFetchSettled(p, o))

LiveBodySettles ==
    /\ Running(p)
    /\ p.ex.pc = "body"
    /\ \E o \in RunBodyOutcomes(p), data \in RunData(p, MaxKeys, MaxPolys) :
          LiveMoves(RunBodySettled(p, o, data))

LiveWaitElapses ==
    /\ Running(p)
    /\ p.ex.pc = "wait"
    /\ LiveMoves(RunWaitElapsed(p))

NextPipeLive ==
    \/ LiveFetchSettles
    \/ LiveBodySettles
    \/ LiveWaitElapses
    \/ PipeCancel

SpecPipeLive ==
    /\ InitPipeLive
    /\ [][NextPipeLive]_vars
    /\ WF_vars(LiveFetchSettles)
    /\ WF_vars(LiveBodySettles)
    /\ WF_vars(LiveWaitElapses)

Init ==
    /\ ProtoIdle
    /\ fn = NoCall
    /\ q = NoQuery
    /\ sig = FALSE
    /\ h = HistInit(NoQuery)
    /\ p = PipeIdle

Types(msgs) == [i \in 1 .. Len(msgs) |-> msgs[i].type]

\* A method of the component ran and left u2: its messages are posted.  An
\* abort message carries no job id; it counts as posted for every run
\* started so far.
Perform(u2) ==
    /\ u2.soilJobId <= MaxRuns
    /\ log.userActions < MaxUserActions
    /\ ui' = [u2 EXCEPT !.out = <<>>]
    /\ toWorker' = toWorker \o u2.out
    /\ log' = [log EXCEPT !.asked =
                  IF "abort" \in Range(Types(u2.out))
                  THEN @ \cup (1 .. ui.soilJobId) ELSE @,
                          !.userActions = @ + 1]
    /\ UNCHANGED <<toUI, wk, q, sig, h, p, fn>>

\* handleDrawEvent: the drawn layer is added, then updateGeoJSON.
UserDraws ==
    /\ Len(ui.drawnItems) < MaxShapes
    /\ \E c \in ShapeCodes :
          Perform(updateGeoJSON([ui EXCEPT !.drawnItems = Append(@, c)]))

\* handleEditEvent: the edit control has changed the layers (or saved them
\* as they were), then updateGeoJSON.
UserEdits ==
    \E i \in 1 .. Len(ui.drawnItems), c \in ShapeCodes :
        Perform(updateGeoJSON([ui EXCEPT !.drawnItems[i] = c]))

\* handleDeleteEvent: the edit control has removed a layer.
UserDeletes ==
    \E i \in 1 .. Len(ui.drawnItems) :
        Perform(updateGeoJSON([ui EXCEPT !.drawnItems =
            SubSeq(@, 1, i - 1) \o SubSeq(@, i + 1, Len(@))]))

\* The button "Recalculate Soil" (shown when there are features, disabled
\* while soilLoading or without soilData).
UserForcesRecalculate ==
    /\ ui.geojson # <<>> /\ ui.geojson[1] > 0
    /\ ~ui.soilLoading
    /\ ui.soilData # <<>>
    /\ Perform(forceRecalculate(ui))

\* The button "Clear All" (disabled while soilLoading).
UserClearsAll ==
    /\ ~ui.soilLoading
    /\ Perform(clearAll(ui))

\* The component's message event: the head of the queue is dispatched.
UIReceives ==
    /\ toUI # <<>>
    /\ ui' = onMessage(ui, Head(toUI))
    /\ toUI' = Tail(toUI)
    /\ log' = [log EXCEPT !.dataJob =
                  IF ListenerAccepts(ui, Head(toUI)) /\ Head(toUI).type = "result"
                  THEN Head(toUI).id ELSE @]
    /\ UNCHANGED <<toWorker, wk, q, sig, h, p, fn>>

\* Run id of the worker moves from wk.runs[id] to w2.runs[id] (w2 is the
\* worker after it); failed = 1 if a request failed in the network.
WorkerMoves(id, w2, failed) ==
    LET posts == PostsOf(id, wk.runs[id], w2.runs[id]) IN
    /\ wk' = w2
    /\ toUI' = toUI \o posts
    /\ log' = [log EXCEPT !.posted[id] = @ \o Types(posts),
                          !.netFailures = @ + failed]
    /\ UNCHANGED <<ui, q, sig, h, p, fn>>

WorkerReceivesStart ==
    /\ toWorker # <<>>
    /\ Head(toWorker).type = "start"
    /\ toWorker' = Tail(toWorker)
    /\ WorkerMoves(Head(toWorker).id, WorkerStart(wk, Head(toWorker)), 0)

WorkerReceivesAbort ==
    /\ toWorker # <<>>
    /\ Head(toWorker).type = "abort"
    /\ toWorker' = Tail(toWorker)
    /\ wk' = WorkerAbort(wk)
    /\ UNCHANGED <<ui, toUI, log, q, sig, h, p, fn>>

FailureOutcomes == {"network_error", "timeout"}

WorkerFetchSettles ==
    \E id \in 1 .. MaxRuns :
        LET r == wk.runs[id] IN
        /\ Running(r)
        /\ r.ex.pc = "fetch"
        /\ \E o \in RunFetchOutcomes(r) :
              /\ o \in FailureOutcomes => log.netFailures < MaxNetFailures
              /\ WorkerMoves(id, WorkerAfter(wk, id, RunFetchSettled(r, o)),
                             IF o \in FailureOutcomes THEN 1 ELSE 0)
        /\ UNCHANGED toWorker

BodySettlesOn(full) ==
    \E id \in 1 .. MaxRuns :
        LET r == wk.runs[id] IN
        /\ Running(r)
        /\ r.ex.pc = "body"
        /\ \E o \in RunBodyOutcomes(r), data \in WorkerData(r, full) :
              WorkerMoves(id, WorkerAfter(wk, id, RunBodySettled(r, o, data)), 0)
        /\ UNCHANGED toWorker

\* In Spec the drawn area has no map units.
WorkerBodySettles == BodySettlesOn(FALSE)

WorkerWaitElapses ==
    \E id \in 1 .. MaxRuns :
        LET r == wk.runs[id] IN
        /\ Running(r)
        /\ r.ex.pc = "wait"
        /\ WorkerMoves(id, WorkerAfter(wk, id, RunWaitElapsed(r)), 0)
        /\ UNCHANGED toWorker

Next ==
    \/ UserDraws
    \/ UserEdits
    \/ UserDeletes
    \/ UserForcesRecalculate
    \/ UserClearsAll
    \/ UIReceives
    \/ WorkerReceivesStart
    \/ WorkerReceivesAbort
    \/ WorkerFetchSettles
    \/ WorkerBodySettles
    \/ WorkerWaitElapses

Spec == Init /\ [][Next]_vars

(***************************************************************************)
(* SpecWorker: the worker alone, handling a script of messages of a page   *)
(* against an endpoint that answers with any table.                        *)
(***************************************************************************)
StartMessage(id, input, maxResultsArg) ==
    [type |-> "start", id |-> id, geojson |-> input, maxResults |-> maxResultsArg]

AbortMessage == [type |-> "abort"]

WorkerInputs == {OnePolygon, Geo("null", <<>>), Geo("FeatureCollection", <<>>)}

WorkerScripts ==
    UNION {{<<StartMessage(1, g1, m)>>,
            <<StartMessage(1, g1, m), AbortMessage>>,
            <<AbortMessage, StartMessage(1, g1, m)>>,
            <<StartMessage(1, g1, m), StartMessage(2, g2, m)>>,
            <<StartMessage(1, g1, m), AbortMessage, StartMessage(2, g2, m)>>,
            <<StartMessage(1, g1, m), StartMessage(2, g2, m), AbortMessage>>} :
           g1 \in WorkerInputs, g2 \in WorkerInputs, m \in {<<>>, <<1>>}}

InitWorker ==
    /\ ui = NewComponent
    /\ toWorker \in WorkerScripts
    /\ toUI = <<>>
    /\ wk = NewWorker
    /\ log = NewLog
    /\ fn = NoCall
    /\ q = NoQuery
    /\ sig = FALSE
    /\ h = HistInit(NoQuery)
    /\ p = PipeIdle

WorkerBodySettlesAny == BodySettlesOn(TRUE)

NextWorker ==
    \/ WorkerReceivesStart
    \/ WorkerReceivesAbort
    \/ WorkerFetchSettles
    \/ WorkerBodySettlesAny
    \/ WorkerWaitElapses

SpecWorker == InitWorker /\ [][NextWorker]_vars

(***************************************************************************)
(* SpecKeys: the key list of a run, from the answer of the lookup and the  *)
(* maxResults argument (<<>>: undefined), for answers longer than the      *)
(* default of the parameter.                                               *)
(***************************************************************************)
LookupRows(n) == [i \in 1 .. n |-> IF i % 2 = 1 THEN "101" ELSE "102"]

KeyArgs == {<<>>, <<0>>, <<1>>, <<100>>}

InitKeys ==
    /\ fn \in {[pc |-> "call", name |-> "keys", arg |-> a, rows |-> LookupRows(n)] :
                  a \in KeyArgs, n \in 0 .. MaxLookupRows}
    /\ ProtoIdle
    /\ q = NoQuery
    /\ sig = FALSE
    /\ h = HistInit(NoQuery)
    /\ p = PipeIdle

\* const mukeys = await getSoilMapUnitKeys(...); const limitedMukeys = ...
KeysResolved ==
    /\ fn.pc = "call"
    /\ fn.name = "keys"
    /\ fn' = [pc |-> "done", name |-> "keys", arg |-> fn.arg, rows |-> fn.rows,
              used |-> LimitKeys(getSoilMapUnitKeys(fn.rows),
                                 ResolveMaxResults(fn.arg))]
    /\ UNCHANGED <<q, sig, h, p, ui, toWorker, toUI, wk, log>>

NextKeys == KeysResolved

SpecKeys == InitKeys /\ [][NextKeys]_vars

(***************************************************************************)
(* SpecIsect: one call of calculateRobustIntersection.                     *)
(* A pair (soil geometry, study geometry) is given by what is true of it   *)
(* and by how the geometry libraries behave on it: how the two lie to each *)
(* other, their areas and the area of their overlap (hundredths of a       *)
(* square meter), the type of the soil geometry, whether the first         *)
(* polygon of a MultiPolygon soil geometry carries the overlap, and for    *)
(* each library call whether it computes ("ok") or throws.                 *)
(***************************************************************************)
Relations == {"disjoint", "overlap", "soil_within", "study_within", "equal"}

AreaChoices == {5, 10, 50}

SoilTypes == {"Polygon", "MultiPolygon", "Other"}

LibOutcomes == {"ok", "throws"}

Consistent(g) ==
    /\ g.relation = "overlap" =>
          g.overlapArea < g.soilArea /\ g.overlapArea < g.studyArea
    /\ g.relation # "overlap" => g.overlapArea = 5
    /\ g.relation = "soil_within" => g.soilArea < g.studyArea
    /\ g.relation = "study_within" => g.studyArea < g.soilArea
    /\ g.relation = "equal" => g.soilArea = g.studyArea
    /\ g.soilType # "MultiPolygon" => g.firstPart
    /\ g.soilType = "Other" => g.overlay = "throws"

IsectInputs ==
    {g \in [relation : Relations, soilArea : AreaChoices, studyArea : AreaChoices,
            overlapArea : AreaChoices, soilType : SoilTypes, firstPart : BOOLEAN,
            overlay : LibOutcomes, clipping : LibOutcomes, within : LibOutcomes] :
        Consistent(g)}

\* The area the two geometries have in common.
CommonAreaOfTouching(g) ==
    CASE g.relation = "overlap" -> g.overlapArea
      [] g.relation = "study_within" -> g.studyArea
      [] OTHER -> g.soilArea

CommonArea(g) ==
    CASE g.relation = "disjoint" -> 0
      [] g.relation = "overlap" -> g.overlapArea
      [] g.relation = "study_within" -> g.studyArea
      [] OTHER -> g.soilArea

\* turf.booleanWithin(soilFeature, studyFeature) and the converse
SoilWithinStudy(g) == g.relation \in {"soil_within", "equal"}

StudyWithinSoil(g) == g.relation \in {"study_within", "equal"}

\* getPolygonCoordinates: null unless the type is Polygon or MultiPolygon;
\* of a MultiPolygon only the first polygon.
getPolygonCoordinates(type) == IF type \in {"Polygon", "MultiPolygon"} THEN <<type>> ELSE <<>>

Found(geometry, area, method) ==
    [geometry |-> geometry, area |-> area, method |-> method]

\* area >= 0.1
LargeEnough(area) == area >= MIN_AREA

\* Method 1: [outcome, value]; outcome "ok": the method returned value.
OverlayMethod(g) ==
    IF g.overlay = "throws" THEN [outcome |-> "threw", value |-> <<>>]
    ELSE IF CommonArea(g) = 0 THEN [outcome |-> "nothing", value |-> <<>>]
    ELSE IF LargeEnough(CommonArea(g))
         THEN [outcome |-> "ok",
               value |-> <<Found("intersection", CommonArea(g), "turf_intersect")>>]
         ELSE [outcome |-> "below", value |-> <<>>]

\* Method 2; outcomes "no_coords" and "empty" are its `return null`.
ClippingMethod(g) ==
    LET clipped == IF g.firstPart THEN CommonArea(g) ELSE 0 IN
    IF getPolygonCoordinates(g.soilType) = <<>> \/ getPolygonCoordinates("Polygon") = <<>>
    THEN [outcome |-> "no_coords", value |-> <<>>]
    ELSE IF g.clipping = "throws" THEN [outcome |-> "threw", value |-> <<>>]
    ELSE IF clipped = 0 THEN [outcome |-> "empty", value |-> <<>>]
    ELSE IF LargeEnough(clipped)
         THEN [outcome |-> "ok",
               value |-> <<Found("clipped", clipped, "polygon_clipping")>>]
         ELSE [outcome |-> "below", value |-> <<>>]

\* Method 3
ContainmentMethod(g) ==
    IF g.within = "throws" THEN [outcome |-> "threw", value |-> <<>>]
    ELSE IF SoilWithinStudy(g)
         THEN [outcome |-> "ok",
               value |-> <<Found("soil", g.soilArea, "soil_within_study")>>]
    ELSE IF StudyWithinSoil(g)
         THEN [outcome |-> "ok",
               value |-> <<Found("study", g.studyArea, "study_within_soil")>>]
    ELSE [outcome |-> "nothing", value |-> <<>>]

\* calculateRobustIntersection: [result, ran, outcomes]; result is <<>> for
\* null; ran lists the methods that were run, outcomes how each ended.
calculateRobustIntersection(g) ==
    LET m1 == OverlayMethod(g)
        m2 == ClippingMethod(g)
        m3 == ContainmentMethod(g)
    IN  IF m1.outcome = "ok"
        THEN [result |-> m1.value, ran |-> <<"overlay">>,
              outcomes |-> <<m1.outcome>>]
        ELSE IF m2.outcome \in {"ok", "no_coords", "empty"}
        THEN [result |-> m2.value, ran |-> <<"overlay", "clipping">>,
              outcomes |-> <<m1.outcome, m2.outcome>>]
        ELSE [result |-> m3.value,
              ran |-> <<"overlay", "clipping", "containment">>,
              outcomes |-> <<m1.outcome, m2.outcome, m3.outcome>>]

InitIsect ==
    /\ fn \in {[pc |-> "call", name |-> "isect", g |-> g] : g \in IsectInputs}
    /\ ProtoIdle
    /\ q = NoQuery
    /\ sig = FALSE
    /\ h = HistInit(NoQuery)
    /\ p = PipeIdle

IsectReturns ==
    /\ fn.pc = "call"
    /\ fn.name = "isect"
    /\ fn' = [pc |-> "done", name |-> "isect", g |-> fn.g,
              out |-> calculateRobustIntersection(fn.g)]
    /\ UNCHANGED <<q, sig, h, p, ui, toWorker, toUI, wk, log>>

NextIsect == IsectReturns

SpecIsect == InitIsect /\ [][NextIsect]_vars

(***************************************************************************)
(* SpecPoly: one pass of the body of `for (const [wktPolygon] of           *)
(* polygonData)` in calculateSoilIntersections.  A polygon row is given by *)
(* whether its WKT parses, whether turf.booleanIntersects computes or      *)
(* throws, and the pair (soil geometry, study geometry) it makes.          *)
(***************************************************************************)
\* sqmToAcres, from hundredths of a square meter to millionths of an acre
sqmToAcres(area) == Round(area * ACRES_PER_SQM, 1000)

\* turf.booleanIntersects(soilFeature, studyFeature)
booleanIntersects(g) == g.relation # "disjoint"

\* The feature the row adds to intersectionFeatures (<<>>: none).  A row
\* whose WKT does not parse and a row on which the geometric test throws
\* leave `intersection` null.
PolygonFeature(poly) ==
    IF poly.parse = "fails" \/ poly.intersects = "throws" THEN <<>>
    ELSE IF ~booleanIntersects(poly.g) THEN <<>>
    ELSE LET found == calculateRobustIntersection(poly.g).result IN
         IF found = <<>> THEN <<>>
         ELSE IF sqmToAcres(found[1].area) > NOISE_FLOOR
              THEN <<[area_acres |-> sqmToAcres(found[1].area),
                      area_square_meters |-> found[1].area,
                      intersection_method |-> found[1].method,
                      geometry |-> found[1].geometry]>>
              ELSE <<>>

PolyInputs ==
    [parse : {"ok", "fails"}, intersects : LibOutcomes, g : IsectInputs]

InitPoly ==
    /\ fn \in {[pc |-> "call", name |-> "poly", poly |-> poly] : poly \in PolyInputs}
    /\ ProtoIdle
    /\ q = NoQuery
    /\ sig = FALSE
    /\ h = HistInit(NoQuery)
    /\ p = PipeIdle

\* isect is what calculateRobustIntersection returns for the pair when it
\* is called on its own.
PolygonProcessed ==
    /\ fn.pc = "call"
    /\ fn.name = "poly"
    /\ fn' = [pc |-> "done", name |-> "poly", poly |-> fn.poly,
              isect |-> calculateRobustIntersection(fn.poly.g),
              feature |-> PolygonFeature(fn.poly)]
    /\ UNCHANGED <<q, sig, h, p, ui, toWorker, toUI, wk, log>>

NextPoly == PolygonProcessed

SpecPoly == InitPoly /\ [][NextPoly]_vars

(***************************************************************************)
(* SpecNorm: one call of extractAndConvertGeometry, and what               *)
(* getSoilPolygonsAndAreas does with the same input up to its first await. *)
(***************************************************************************)
GeometryTypes == {"Polygon", "Point", "none", "nocoords"}

UnionOutcomes == {"Polygon", "MultiPolygon", "null", "throws"}

Features == [gtype : GeometryTypes, union : UnionOutcomes]

\* A FeatureCollection of up to MaxFeatures features, a Feature, or a bare
\* geometry of a polygonal or of another type.
NormInputs ==
    {Geo("FeatureCollection", fs) : fs \in Seqs(Features, MaxFeatures)}
        \cup {Geo("Feature", <<Feat(t, "null")>>) : t \in GeometryTypes}
        \cup UNION {{Geo(t, <<Feat(t, "null")>>), Geo(t, <<Feat("nocoords", "null")>>)} :
                       t \in {"Polygon", "MultiPolygon", "Point", "LineString"}}

InitNorm ==
    /\ fn \in {[pc |-> "call", name |-> "norm", input |-> g] : g \in NormInputs}
    /\ ProtoIdle
    /\ q = NoQuery
    /\ sig = FALSE
    /\ h = HistInit(NoQuery)
    /\ p = PipeIdle

NormalizerReturns ==
    /\ fn.pc = "call"
    /\ fn.name = "norm"
    /\ fn' = [pc |-> "done", name |-> "norm", input |-> fn.input,
              out |-> extractAndConvertGeometry(fn.input),
              run |-> getSoilPolygonsAndAreas(fn.input, <<>>, "none")]
    /\ UNCHANGED <<q, sig, h, p, ui, toWorker, toUI, wk, log>>

NextNorm == NormalizerReturns

SpecNorm == InitNorm /\ [][NextNorm]_vars

(***************************************************************************)
(* SpecHash: generateGeometryHash applied to two payloads.                 *)
(***************************************************************************)
\* "F", "G": collection types; "f": a feature type; "A", "B": geometries;
\* "P": a properties object; "X": another member.
HashFeatures ==
    [type : {<<102>>}, geometry : {<<65>>, <<66>>},
     properties : {<<>>, <<80>>}]

Payloads ==
    [type : {<<70>>, <<71>>},
     features : {<<>>} \cup {<<fs>> : fs \in Seqs(HashFeatures, MaxHashFeatures)},
     extra : {<<>>, <<88>>}]

InitHash ==
    /\ fn \in {[pc |-> "call", name |-> "hash", a |-> a, b |-> b] :
                  a \in Payloads, b \in Payloads}
    /\ ProtoIdle
    /\ q = NoQuery
    /\ sig = FALSE
    /\ h = HistInit(NoQuery)
    /\ p = PipeIdle

HashesComputed ==
    /\ fn.pc = "call"
    /\ fn.name = "hash"
    /\ fn' = [pc |-> "done", name |-> "hash", a |-> fn.a, b |-> fn.b,
              textA |-> IF fn.a.features = <<>> THEN <<>>
                        ELSE stringify(simplified(fn.a)),
              valuesA |-> IF fn.a.features = <<>> THEN <<>>
                          ELSE HashValues(stringify(simplified(fn.a)), 0, <<>>),
              hashA |-> generateGeometryHashOf(fn.a),
              hashB |-> generateGeometryHashOf(fn.b)]
    /\ UNCHANGED <<q, sig, h, p, ui, toWorker, toUI, wk, log>>

NextHash == HashesComputed

SpecHash == InitHash /\ [][NextHash]_vars

(***************************************************************************)
(* SpecUnits: one call of getSoilPolygonsAndAreas on an endpoint that      *)
(* answers every query at once: the lookup with the keys of n map units,   *)
(* the property query with a record for each of them, and the polygon      *)
(* query of the i-th key with the i-th of the given tables.                *)
(***************************************************************************)
UnitKeys(n) ==
    [i \in 1 .. n |-> CASE i = 1 -> "101" [] i = 2 -> "102" [] i = 3 -> "103"
                         [] OTHER -> "104"]

\* The run after its pending query has returned rows.
Answered(r, rows) ==
    PipeContinue([r EXCEPT !.ex.pc = "returned", !.ex.rows = rows])

RECURSIVE AnsweredAll(_, _)
AnsweredAll(r, tables) ==
    IF tables = <<>> THEN r
    ELSE AnsweredAll(Answered(r, Head(tables)), Tail(tables))

\* The run on the given polygon tables, one per map unit.
RunOnTables(tables) ==
    LET keys == UnitKeys(Len(tables))
        r0   == getSoilPolygonsAndAreas(OnePolygon, <<0>>, "none")
    IN  AnsweredAll(Answered(Answered(r0, keys), keys), tables)

TableRows == {-1, 101, 300}

UnitTables ==
    {t \in Seqs(Seqs(TableRows, MaxTableRows), MaxKeys) : t # <<>>}

InitUnits ==
    /\ fn \in {[pc |-> "call", name |-> "units", tables |-> t] : t \in UnitTables}
    /\ ProtoIdle
    /\ q = NoQuery
    /\ sig = FALSE
    /\ h = HistInit(NoQuery)
    /\ p = PipeIdle

UnitsProcessed ==
    /\ fn.pc = "call"
    /\ fn.name = "units"
    /\ fn' = [pc |-> "done", name |-> "units", tables |-> fn.tables,
              run |-> RunOnTables(fn.tables)]
    /\ UNCHANGED <<q, sig, h, p, ui, toWorker, toUI, wk, log>>

NextUnits == UnitsProcessed

SpecUnits == InitUnits /\ [][NextUnits]_vars

(***************************************************************************)
(* Claims about executeSDQuery (checked under SpecExec)                    *)
(***************************************************************************)
\* Every attempt made so far failed, none of them with an abort.
OnlyNonAbortFailures ==
    /\ q.pc # "returned"
    /\ \A i \in 1 .. Len(h.raised) : h.raised[i].kind # "AbortError"

\* C4: on an endpoint where every attempt fails with a non-abort error the
\* call makes exactly `retries` fetches, waits min(1000 * 2^k, 10000) ms
\* after failed attempt k for every k < retries - 1 and nothing after the
\* final attempt, and then throws.
C4_RetrySchedule ==
    (q.retries >= 1 /\ OnlyNonAbortFailures) =>
        /\ h.waits = [k \in 1 .. Min(Len(h.raised), q.retries - 1) |->
                         Min(1000 * (2 ^ (k - 1)), 10000)]
        /\ h.fetches <= q.retries
        /\ (Len(h.raised) = q.retries) <=> (q.pc = "thrown")
        /\ (q.pc = "thrown") => (h.fetches = q.retries)

C4_Witness ==
    /\ q.retries = 6
    /\ OnlyNonAbortFailures
    /\ q.pc = "thrown"
    /\ h.waits = <<1000, 2000, 4000, 8000, 10000>>

\* The call left the for loop with its budget used up (throw lastError).
Exhausted == q.pc = "thrown" /\ q.attempt >= q.retries /\ q.retries >= 1

\* C5: after exhausting the budget the thrown value is the very error the
\* last attempt raised, not an earlier attempt's error and not a wrapper.
C5_LastErrorVerbatim ==
    Exhausted =>
        /\ Len(h.raised) = q.retries
        /\ q.thrown = h.raised[Len(h.raised)]
        /\ q.thrown.attempt = q.retries - 1

C5_Witness ==
    /\ Exhausted
    /\ q.retries = 3
    /\ h.raised[1].kind = "TypeError"
    /\ h.raised[2].kind = "SyntaxError"
    /\ q.thrown = Err("SDA API Error", 2)

\* C6: a signal triggered while a request is in flight or during a backoff
\* wait ends the call with the timeout/cancellation error, and no attempt
\* made after the trigger obtains a response.
C6_CancellationTerminal ==
    /\ ~h.lateResp
    /\ (h.trigger \in {"fetch", "body", "wait"} /\ q.pc \in {"returned", "thrown"})
          => (q.pc = "thrown" /\ q.thrown.kind = "QueryTimeout")

\* An attempt of the call ended because the request deadline elapsed: the
\* call has no caller's signal, so only the timer of its private controller
\* can have aborted the request.
DeadlineElapsed ==
    /\ ~q.hasSignal
    /\ \E i \in 1 .. Len(h.raised) : h.raised[i].kind = "AbortError"

\* C26: an attempt that ends because the request deadline elapsed, and not
\* because the caller cancelled, is retried like any other failure: the call
\* gives up only when its retry budget is used up.
C26_TimeoutRetried ==
    (DeadlineElapsed /\ q.pc = "thrown") =>
        (h.fetches = q.retries /\ Len(h.raised) = q.retries)

\* C31: the call returns the rows of the first attempt that succeeds and
\* makes no attempt after it: the successful attempt is the last fetch, every
\* fetch before it failed, the returned value is the Table of that attempt's
\* payload whatever the failed attempts raised, and the empty list when the
\* payload has no Table.
C31_RowsOfFirstSuccess ==
    /\ Len(h.payloads) = (IF q.pc = "returned" THEN 1 ELSE 0)
    /\ q.pc = "returned" =>
          /\ h.fetches = Len(h.raised) + 1
          /\ q.attempt = Len(h.raised)
          /\ q.rows = (IF h.payloads[1] = <<>> THEN <<>> ELSE h.payloads[1][1])

C31_Witness ==
    /\ q.pc = "returned"
    /\ h.fetches = 3
    /\ Len(h.raised) = 2
    /\ h.payloads = << <<>> >>
    /\ q.rows = <<>>

\* C30: every network attempt is bounded by the timeout, with or without a
\* cancellation token: an attempt that is waiting for its request ends, even
\* when the request never responds and the token is never triggered.
C30_AttemptBounded == (q.pc = "fetch") ~> (q.pc # "fetch")

\* C39: for every value of `retries`, 0 and negative values included, the
\* call ends only after it has made an attempt, and what it throws is an
\* error value, never undefined.
C39_NeverThrowsUndefined ==
    q.pc \in {"returned", "thrown"} =>
        /\ h.fetches >= 1
        /\ q.pc = "thrown" => q.thrown # NoError

(***************************************************************************)
(* Claims about getSoilPolygonsAndAreas (checked under SpecPipe)           *)
(***************************************************************************)
Ended(r) == r.pc \in {"returned", "thrown"}

\* C2: a run whose cancellation signal was triggered before its terminal
\* outcome ends by throwing the cancellation error and returns no result.
C2_CancelledRunThrows ==
    (Ended(p) /\ p.signal = "aborted") =>
        (p.pc = "thrown" /\ p.error.cause.kind = "QueryTimeout")

\* C8: an exhausted-retry failure of any remote query of a run (lookup,
\* properties, or the polygons of one key) ends the run with an error.
C8_QueryFailureEscapes ==
    (Ended(p) /\ \E i \in 1 .. Len(p.failed) :
                    p.failed[i].error.kind # "QueryTimeout")
        => p.pc = "thrown"

\* C9: when the lookup returns zero keys the run returns a result with an
\* empty features list and a properties record with total_area_acres = 0
\* and mapunit_count = 0.
C9_EmptyResultHasProperties ==
    (p.lookup # <<>> /\ p.mukeys = <<>>) =>
        /\ p.pc = "returned"
        /\ p.result.features = <<>>
        /\ "properties" \in DOMAIN p.result
        /\ p.result.properties.total_area_acres = 0
        /\ p.result.properties.mapunit_count = 0

\* C10: when the lookup's answer carries no key, the lookup is the only
\* remote request of the run: no property query and no polygon query.
C10_NoQueryAfterEmptyLookup ==
    (p.lookup # <<>> /\ \A i \in 1 .. Len(p.lookup[1]) : IsBlank(p.lookup[1][i]))
        => (p.pc = "returned" /\ p.requests = <<[kind |-> "lookup", mukey |-> ""]>>)

C10_Witness ==
    /\ p.pc = "returned"
    /\ p.lookup = << <<"", "">> >>
    /\ p.mukeys = <<>>
    /\ p.requests = <<[kind |-> "lookup", mukey |-> ""]>>

\* The keys of the polygon queries the run has issued, in order.
PolygonQueryKeys(r) ==
    LET polys == SelectSeq(r.requests, LAMBDA req : req.kind = "poly")
    IN  [i \in 1 .. Len(polys) |-> polys[i].mukey]

IsPrefix(s, t) == Len(s) <= Len(t) /\ s = SubSeq(t, 1, Len(s))

\* C12: for maxResults = m > 0 and a lookup that returned n keys the run
\* uses exactly the first min(m, n) keys in the lookup's order: the property
\* query names them and the polygon queries are issued for them in order.
C12_FirstKeysUsed ==
    (p.maxResults > 0 /\ p.mukeys # <<>>) =>
        LET used == SubSeq(p.mukeys, 1, Min(p.maxResults, Len(p.mukeys))) IN
        /\ p.limitedMukeys = used
        /\ p.queried = used
        /\ IsPrefix(PolygonQueryKeys(p), used)
        /\ p.pc = "returned" => PolygonQueryKeys(p) = used

\* The lookup returned two keys, the cap is 1, and the run has returned
\* after one polygon query for the first key.
C12_Witness ==
    /\ p.pc = "returned"
    /\ p.maxResults = 1
    /\ p.mukeys = <<"101", "102">>
    /\ p.queried = <<"101">>
    /\ PolygonQueryKeys(p) = <<"101">>

\* C13: every feature of the returned result belongs to a unit with an
\* accumulated area above 0 and a property record; other keys contribute no
\* feature, no area and no count.
C13_OnlyKeptUnitsContribute ==
    (p.pc = "returned" /\ p.mukeys # <<>>) =>
        /\ \A i \in 1 .. Len(p.result.features) :
              /\ p.result.features[i].mukey \in p.soilProperties
              /\ \E j \in 1 .. Len(p.results) :
                    /\ p.results[j].mukey = p.result.features[i].mukey
                    /\ p.results[j].area_acres > 0
        /\ \A j \in 1 .. Len(p.results) :
              /\ p.results[j].area_acres > 0
              /\ p.results[j].mukey \in p.soilProperties
        /\ p.result.properties.mapunit_count = Len(p.results)
        /\ p.result.properties.total_area_acres = SumAcres(p.result.features)

\* Two keys were processed, both with a polygon in the area; the one without
\* a property record is not in the result.
C13_Witness ==
    /\ p.pc = "returned"
    /\ p.limitedMukeys = <<"101", "102">>
    /\ p.soilProperties = {"102"}
    /\ p.failed = <<>>
    /\ p.result.properties.mapunit_count = 1
    /\ Len(p.result.features) = 1
    /\ p.result.features[1].mukey = "102"

IsStableDescendingSort(sorted, found) ==
    /\ Len(sorted) = Len(found)
    /\ \E perm \in [1 .. Len(found) -> 1 .. Len(found)] :
          /\ \A i, j \in 1 .. Len(found) : i # j => perm[i] # perm[j]
          /\ \A i \in 1 .. Len(found) : sorted[i] = found[perm[i]]
          /\ \A i, j \in 1 .. Len(found) :
                i < j => \/ sorted[i].area_acres > sorted[j].area_acres
                         \/ /\ sorted[i].area_acres = sorted[j].area_acres
                            /\ perm[i] < perm[j]

\* C15: the units of the result are in non-increasing order of area, units
\* of equal area in the order their keys were processed, and the features
\* list is the concatenation of the units' features in that order.
C15_StableDescendingOrder ==
    (p.pc = "returned" /\ p.mukeys # <<>>) =>
        /\ IsStableDescendingSort(p.results, p.discovered)
        /\ p.result.features = AllFeatures(p.results)

\* Two units of equal area: the result keeps them in processing order.
C15_Witness ==
    /\ p.pc = "returned"
    /\ Len(p.discovered) = 2
    /\ p.discovered[1].mukey # p.discovered[2].mukey
    /\ p.discovered[1].area_acres = p.discovered[2].area_acres
    /\ p.results = p.discovered

\* C16: the `current` values a run passes to the progress callback never
\* decrease.
C16_ProgressNonDecreasing ==
    \A i, j \in 1 .. Len(p.progress) : i < j => p.progress[i] <= p.progress[j]

\* A run over two keys, the polygon query of one of which failed, has
\* emitted 0, 20, 40, 60, the sub-progress of each key and 100.
C16_Witness ==
    /\ p.pc = "returned"
    /\ Len(p.failed) = 1
    /\ p.progress = <<0, 20, 40, 60, 60, 78, 95, 100>>

\* C17: a run that returns a result has emitted a final progress event with
\* current = 100 before returning, also when it returns early because no
\* map unit was found.
C17_ReturnedRunReportedComplete ==
    p.pc = "returned" =>
        (p.progress # <<>> /\ p.progress[Len(p.progress)] = 100)

\* The kinds of the requests a run issues, in order: the lookup, the
\* property query, then polygon queries.
RequestKind(i) == IF i = 1 THEN "lookup" ELSE IF i = 2 THEN "props" ELSE "poly"

\* C28: within one run at most one remote request is in flight at any time:
\* the requests are the lookup, the property query and the polygon queries
\* in this order, a request is issued only when every earlier one has
\* settled, and the polygon query of a key only when every earlier key has
\* been processed.
C28_OneRequestInFlight ==
    /\ Len(p.requests) - p.settled = (IF Running(p) THEN 1 ELSE 0)
    /\ \A i \in 1 .. Len(p.requests) : p.requests[i].kind = RequestKind(i)
    /\ (Running(p) /\ p.pc = "poly") =>
          /\ Len(PolygonQueryKeys(p)) = p.processed + 1
          /\ p.idx = p.processed + 1
          /\ \A j \in 1 .. Len(p.results) :
                \E k \in 1 .. p.processed : p.results[j].mukey = p.limitedMukeys[k]
    /\ (p.pc = "returned" /\ p.mukeys # <<>>) =>
          Len(PolygonQueryKeys(p)) = p.processed

\* The polygon query of the second key is pending: the three earlier
\* requests have settled and the first key has been processed.
C28_Witness ==
    /\ Running(p)
    /\ p.pc = "poly"
    /\ PolygonQueryKeys(p) = <<"101", "102">>
    /\ p.processed = 1
    /\ Len(p.results) = 1
    /\ p.settled = 3
    /\ Len(p.requests) = 4

\* C29: the reported total accounts for overlapping soil polygons: what
\* several soil polygons cover is counted once, so total_area_acres never
\* exceeds the area of the study area.
C29_TotalWithinStudyArea ==
    (p.pc = "returned" /\ p.mukeys # <<>>) =>
        p.result.properties.total_area_acres <= StudyAreaAcres

\* C37: on a network in which every request eventually responds or fails
\* every run eventually ends, with a result or with an error; a run that
\* ended with n keys processed made at most retries * (2 + n) network
\* attempts (at most retries per query at any time); and when the run
\* returns, `processed` has reached the number of keys of the loop, whatever
\* path each iteration took.
C37_RunEnds ==
    /\ <>Ended(p)
    /\ [](/\ h.fetches <= MAX_RETRIES * Len(p.requests)
          /\ Ended(p) => h.fetches <= MAX_RETRIES * (2 + p.processed)
          /\ p.pc = "returned" => p.processed = Len(p.limitedMukeys))

\* The lookup and the property query succeeded at their last attempt and
\* the polygon queries of both keys failed at every attempt.
C37_Witness ==
    /\ p.pc = "returned"
    /\ p.processed = 2
    /\ Len(p.failed) = 2
    /\ h.fetches = 12

\* C38: mapunit_count is the number of distinct mukey values among the
\* returned features (the number of units the component shows after
\* grouping the features by mukey), also when the lookup returns a key more
\* than once.
C38_CountOfDistinctUnits ==
    (p.pc = "returned" /\ p.mukeys # <<>>) =>
        p.result.properties.mapunit_count =
            Cardinality({p.result.features[i].mukey :
                            i \in 1 .. Len(p.result.features)})

\* C11: with maxResults 0 or not supplied the key list is not truncated:
\* every key of the lookup is used by the run.
C11_NoCapKeepsEveryKey ==
    (fn.pc = "done" /\ fn.name = "keys" /\ fn.arg \in {<<>>, <<0>>})
        => fn.used = getSoilMapUnitKeys(fn.rows)

(***************************************************************************)
(* Claims about calculateRobustIntersection (checked under SpecIsect)      *)
(***************************************************************************)
IsectDone == fn.pc = "done" /\ fn.name = "isect"

MethodOrder == <<"overlay", "clipping", "containment">>

MethodTags ==
    [overlay |-> {"turf_intersect"}, clipping |-> {"polygon_clipping"},
     containment |-> {"soil_within_study", "study_within_soil"}]

\* C18: the methods are tried in the order overlay, clipping, containment; a
\* method is run only if no earlier one succeeded; the containment check is
\* run whenever overlay and clipping both did not succeed; the tag of the
\* result names the first method that succeeded.
C18_FallbackChain ==
    IsectDone =>
        LET ran == fn.out.ran
            outcomes == fn.out.outcomes
        IN  /\ IsPrefix(ran, MethodOrder)
            /\ \A k \in 1 .. Len(ran) - 1 : outcomes[k] # "ok"
            /\ (Len(ran) >= 2 /\ outcomes[1] # "ok" /\ outcomes[2] # "ok")
                  => Len(ran) = 3
            /\ fn.out.result # <<>> =>
                  /\ outcomes[Len(ran)] = "ok"
                  /\ fn.out.result[1].method \in MethodTags[ran[Len(ran)]]

\* C19: every non-null result has an area of at least 0.1 square meters,
\* whichever tag it carries.
C19_ResultAtLeastThreshold ==
    (IsectDone /\ fn.out.result # <<>>) => fn.out.result[1].area >= MIN_AREA

\* C20: for a soil polygon that fully contains the study area the result is
\* the study area's geometry with the study area's own area and the tag
\* study_within_soil (stated for the calls in which no library call throws).
C20_StudyWithinSoil ==
    (/\ IsectDone
     /\ StudyWithinSoil(fn.g)
     /\ fn.g.overlay = "ok" /\ fn.g.clipping = "ok" /\ fn.g.within = "ok") =>
        fn.out.result = <<Found("study", fn.g.studyArea, "study_within_soil")>>

(***************************************************************************)
(* Claims about the polygon loop (checked under SpecPoly)                  *)
(***************************************************************************)
PolyDone == fn.pc = "done" /\ fn.name = "poly"

\* C21: for two disjoint polygons calculateRobustIntersection returns null,
\* and in the pipeline a soil polygon disjoint from the study area adds no
\* feature (hence no area) to its unit.
C21_DisjointContributesNothing ==
    (PolyDone /\ fn.poly.g.relation = "disjoint") =>
        /\ fn.isect.result = <<>>
        /\ fn.feature = <<>>

\* A disjoint soil polygon of 0.5 square meters on which every library call
\* computes: all three methods were run and found nothing.
C21_Witness ==
    /\ PolyDone
    /\ fn.poly.g.relation = "disjoint"
    /\ fn.poly.g.soilArea = 50
    /\ fn.poly.parse = "ok" /\ fn.poly.intersects = "ok"
    /\ fn.poly.g.overlay = "ok" /\ fn.poly.g.clipping = "throws"
    /\ fn.poly.g.within = "ok"
    /\ fn.isect.ran = <<"overlay", "clipping", "containment">>
    /\ fn.isect.result = <<>>
    /\ fn.feature = <<>>

(***************************************************************************)
(* Claims about extractAndConvertGeometry (checked under SpecNorm)         *)
(***************************************************************************)
NormDone == fn.pc = "done" /\ fn.name = "norm"

Polygonal == {"Polygon", "MultiPolygon"}

\* The input carries a geometry of a type other than Polygon or
\* MultiPolygon: bare, in a Feature, or in every feature of a collection.
OtherGeometryOnly(input) ==
    /\ input.features # <<>>
    /\ \A i \in 1 .. Len(input.features) : input.features[i].gtype = "Point"
    /\ input.type \in {"Feature", "FeatureCollection", "Point", "LineString"}
    /\ input.type = "FeatureCollection" => Len(input.features) = 1

\* C22: a geometry returned by extractAndConvertGeometry is a Polygon or a
\* MultiPolygon; an input whose geometry is of another type, bare or wrapped
\* in a Feature or a FeatureCollection, is rejected with an error and no
\* request with its WKT is made.
C22_OnlyPolygonalAccepted ==
    NormDone =>
        /\ fn.out.ok => fn.out.geometry.type \in Polygonal
        /\ OtherGeometryOnly(fn.input) =>
              (~fn.out.ok /\ fn.run.pc = "thrown" /\ fn.run.requests = <<>>)

\* The features i >= 2 of a collection whose union with the running union
\* produced a geometry.
Unioned(fs) == {i \in 2 .. Len(fs) : fs[i].union \in Polygonal}

Largest(S) == CHOOSE i \in S : \A j \in S : j <= i

HashDone == fn.pc = "done" /\ fn.name = "hash"

\* The two payloads have the same collection type and, feature by feature,
\* the same feature type and geometry.
SameTypesAndGeometries(a, b) ==
    /\ a.type = b.type
    /\ (a.features = <<>>) <=> (b.features = <<>>)
    /\ a.features # <<>> =>
          /\ Len(a.features[1]) = Len(b.features[1])
          /\ \A i \in 1 .. Len(a.features[1]) :
                /\ a.features[1][i].type = b.features[1][i].type
                /\ a.features[1][i].geometry = b.features[1][i].geometry

\* C24: the digest depends on the collection type and on each feature's type
\* and geometry only: payloads that agree on those, whatever their feature
\* properties and other members, get the same digest, and so does the same
\* payload hashed twice.
C24_HashOfTypesAndGeometries ==
    (HashDone /\ SameTypesAndGeometries(fn.a, fn.b)) => fn.hashA = fn.hashB

\* Two payloads of two features that differ in the properties of a feature
\* and in another member, with the same digest.
C24_Witness ==
    /\ HashDone
    /\ SameTypesAndGeometries(fn.a, fn.b)
    /\ fn.a.features # <<>>
    /\ Len(fn.a.features[1]) = 2
    /\ fn.a.features[1][1].properties # fn.b.features[1][1].properties
    /\ fn.a.extra # fn.b.extra
    /\ fn.hashA # <<>>
    /\ fn.hashA = fn.hashB

\* 31 * h + c reduced modulo 2^32 into the signed range.
Poly31Step(prev, c) ==
    LET lo  == prev % 65536
        hi  == (prev - lo) \div 65536
        t   == 31 * lo + c
        hi2 == ((31 * hi + (t \div 65536) + 32768) % 65536) - 32768
    IN  hi2 * 65536 + (t % 65536)

\* The number a decimal text denotes.
RECURSIVE ParseDigits(_, _)
ParseDigits(text, acc) ==
    IF acc \in Int /\ text # <<>>
    THEN ParseDigits(Tail(text), 10 * acc - (Head(text) - 48))
    ELSE acc

ParseDecimal(text) ==
    IF Head(text) = 45 THEN ParseDigits(Tail(text), 0)
    ELSE -ParseDigits(text, 0)

UnitsDone == fn.pc = "done" /\ fn.name = "units"

\* The tables without the rows that fail to parse or to intersect.
WithoutFailures(tables) ==
    [i \in 1 .. Len(tables) |-> SelectSeq(tables[i], LAMBDA row : row >= 0)]

\* C27: a parse failure or an intersection exception for one soil polygon
\* never aborts the run: the run returns a result, and its units, features
\* and totals are those of the same run without the failing polygons.
C27_PolygonFailureAbsorbed ==
    UnitsDone =>
        LET without == RunOnTables(WithoutFailures(fn.tables)) IN
        /\ fn.run.pc = "returned"
        /\ fn.run.result = without.result
        /\ fn.run.results = without.results
        /\ fn.run.progress = without.progress

\* Two map units: the first polygon of the first unit fails and its second
\* polygon counts, as does the polygon of the second unit.
C27_Witness ==
    /\ UnitsDone
    /\ fn.tables = << <<-1, 300>>, <<101>> >>
    /\ fn.run.pc = "returned"
    /\ fn.run.result.properties.total_area_acres = 401
    /\ Len(fn.run.result.features) = 2
    /\ fn.run.result.properties.mapunit_count = 2

(***************************************************************************)
(* Claims about the component and the worker                               *)
(***************************************************************************)
Terminal == {"result", "error"}

\* The terminal messages the worker posted for run id so far.
Terminals(id) == SelectSeq(log.posted[id], LAMBDA t : t \in Terminal)

\* Run id was started by the component and the worker has not posted its
\* terminal message.
InFlight(id) == id \in 1 .. ui.soilJobId /\ Terminals(id) = <<>>

\* C1: once refreshSoil has started a newer run, a worker message that
\* carries an older run id is dropped: dispatching it leaves soilData,
\* soilError, soilLoading, soilProgress and currentSoilAbort as they were.
C1_StaleMessageDropped ==
    [][(toUI # <<>> /\ toUI' = Tail(toUI) /\ Head(toUI).id < ui.soilJobId)
          => /\ ui'.soilData = ui.soilData
             /\ ui'.soilError = ui.soilError
             /\ ui'.soilLoading = ui.soilLoading
             /\ ui'.soilProgress = ui.soilProgress
             /\ ui'.currentSoilAbort = ui.currentSoilAbort]_vars

\* C3: a run is started only after an abort was posted for the runs before
\* it that have not ended, so at no time are two runs in flight of which
\* neither has been asked to cancel.
C3_OneLiveRun ==
    Cardinality({id \in 1 .. MaxRuns : InFlight(id) /\ id \notin log.asked}) <= 1

\* C7: for a start message it has handled the worker posts exactly one
\* terminal message once the run has ended and none before, a result if the
\* run returned and an error if it threw, and no progress message after it.
C7_ExactlyOneTerminal ==
    \A id \in 1 .. MaxRuns :
        LET posted == log.posted[id] IN
        /\ Len(Terminals(id)) = (IF Running(wk.runs[id]) \/ wk.runs[id].pc = "start"
                                 THEN 0 ELSE 1)
        /\ wk.runs[id].pc = "returned" => Terminals(id) = <<"result">>
        /\ wk.runs[id].pc = "thrown" => Terminals(id) = <<"error">>
        /\ Terminals(id) # <<>> => posted[Len(posted)] \in Terminal

\* One run has posted the seven progress messages of an analysis with one
\* map unit and then its result, the other has posted an error.
C7_Witness ==
    /\ log.posted[1] = <<"progress", "progress", "progress", "progress",
                         "progress", "progress", "progress", "result">>
    /\ Len(log.posted[2]) > 1
    /\ log.posted[2][Len(log.posted[2])] = "error"

\* Run id is the run the worker started last.
NewestStarted(id) ==
    /\ wk.runs[id].pc # "start"
    /\ \A other \in 1 .. MaxRuns : other > id => wk.runs[other].pc = "start"

\* C33: while the run started last is in flight in the worker, currentAbort
\* is the controller of that run, so that an abort message aborts it: the
\* end of an older run neither clears nor replaces the handle.
C33_AbortReachesNewestRun ==
    \A id \in 1 .. MaxRuns :
        (NewestStarted(id) /\ Running(wk.runs[id])) => wk.currentAbort = id

\* Run id of the worker ended because its cancellation token was triggered:
\* its signal is aborted and the request it was waiting for was rejected
\* for it (a call that is given a signal arms no timer of its own).
EndedByCancellation(id) ==
    /\ wk.runs[id].pc = "thrown"
    /\ wk.runs[id].signal = "aborted"
    /\ wk.runs[id].error.cause.kind = "QueryTimeout"

\* C35: when a run ends because its cancellation token was triggered, the
\* error message the worker posts carries aborted = true (so that the
\* component reports 'Request canceled').
C35_CancellationReportedAsAborted ==
    \A i \in 1 .. Len(toUI) :
        (toUI[i].type = "error" /\ EndedByCancellation(toUI[i].id))
            => toUI[i].aborted

\* C34: after clearAll, or after updateGeoJSON found no drawn feature,
\* soilData and soilError stay null and soilLoading stays false until
\* refreshSoil starts the next run, whatever messages of an earlier run
\* arrive.  (A run is started for drawn features only, so no run was started
\* since the map was emptied while drawnItems is empty.)
C34_ClearedStaysCleared ==
    ui.drawnItems = <<>> =>
        (ui.soilData = <<>> /\ ui.soilError = <<>> /\ ~ui.soilLoading)

\* A step in which updateGeoJSON runs (after a draw, an edit or a deletion)
\* with at least one feature on the map.
UpdateStep ==
    /\ UserDraws \/ UserEdits \/ UserDeletes
    /\ Len(ui'.drawnItems) > 0

\* The step posts a start message: a new run is started.
StartPosted ==
    /\ Len(toWorker') > Len(toWorker)
    /\ toWorker'[Len(toWorker')].type = "start"
    /\ ui'.soilJobId = ui.soilJobId + 1

\* The digest of the drawn features differs from lastAnalyzedGeometryHash,
\* or there is no soilData.
NeedsAnalysis ==
    \/ <<generateGeometryHash(ui'.drawnItems)>> # ui.lastAnalyzedGeometryHash
    \/ ui.soilData = <<>>

\* Nothing is posted and the existing soilData is drawn on the map.
OnlyRerendered ==
    /\ toWorker' = toWorker
    /\ ui'.soilJobId = ui.soilJobId
    /\ ui'.soilData = ui.soilData
    /\ ui'.soilLayers = ui.soilData[1].features

DigestOfRun(id) ==
    generateGeometryHash([i \in 1 .. Len(wk.runs[id].geojson.features) |->
                             wk.runs[id].geojson.features[i].code])

\* C36: whenever updateGeoJSON bypasses the pipeline and re-renders the
\* existing soilData, that soilData is the result of a run on a geometry
\* whose digest equals the digest of the drawn geometry.
C36_RerenderedDataMatchesGeometry ==
    [][(UpdateStep /\ ~NeedsAnalysis /\ OnlyRerendered) =>
          /\ log.dataJob > 0
          /\ DigestOfRun(log.dataJob) = generateGeometryHash(ui'.drawnItems)]_vars

====
